---- MODULE Spec2Model ----
(***************************************************************************)
(* Reverse-index search engine of invest-lab: src/src/analyzer.py (index   *)
(* load/save, batch fold, query) and the resumable search loop of          *)
(* src/app.py (search click handler, running loop, result conversion).     *)
(***************************************************************************)
EXTENDS Integers, Sequences, FiniteSets, TLC

(***************************************************************************)
(* Bounds of the model.                                                    *)
(***************************************************************************)
\* the clock runs 1 .. MaxTime (time.time() and directory mtimes, in seconds)
MaxTime == 4
\* chunk_size of the running loop (app.py:703 sets 20), scaled to the fund universe
ChunkSize == 2

\* 2.0 second buffer of the validity check
GRACE == 2

Funds == {"F1", "F2", "F3"}

\* reporting-period labels in lexicographic (string) order
QuarterLabels == <<"2024Q1", "2024Q2">>

Unknown == "Unknown"

(***************************************************************************)
(* Generic helpers on sequences and maps (python list / dict).             *)
(***************************************************************************)
EmptyMap == [x \in {} |-> {}]

Range(s) == {s[i] : i \in 1..Len(s)}

\* python: d[k] = v
MapPut(d, k, v) == [x \in (DOMAIN d) \cup {k} |-> IF x = k THEN v ELSE d[x]]

\* python: del d[k]
MapDel(d, k) == [x \in (DOMAIN d) \ {k} |-> d[x]]

\* python: x in lst
InList(lst, x) == \E i \in 1..Len(lst) : lst[i] = x

\* python: lst.remove(x), removes the first occurrence
ListRemove(lst, x) ==
    LET i == CHOOSE j \in 1..Len(lst) :
                 lst[j] = x /\ \A k \in 1..(j-1) : lst[k] # x
    IN  [j \in 1..(Len(lst)-1) |-> IF j < i THEN lst[j] ELSE lst[j+1]]

\* number of occurrences of x in lst
Count(lst, x) == Cardinality({i \in 1..Len(lst) : lst[i] = x})

(***************************************************************************)
(* str.strip() on the raw term strings of the model.                       *)
(***************************************************************************)
\* a strip that leaves a term of blanks as it is
StripKeepsBlank(s) ==
    CASE s = " c1" -> "c1"
      [] s = " n3" -> "n3"
      [] OTHER     -> s

Strip(s) ==
    CASE s = " c1" -> "c1"
      [] s = " n3" -> "n3"
      [] s = " "   -> ""
      [] OTHER     -> s

\* inputs = [s.strip() for s in stock_inputs if s.strip()]
NormalizeInputsNoStrip(stock_inputs) == SelectSeq(stock_inputs, LAMBDA s : s # "")

RECURSIVE NormalizeInputs(_)
NormalizeInputs(stock_inputs) ==
    IF stock_inputs = << >> THEN << >>
    ELSE LET h == Strip(Head(stock_inputs))
             t == NormalizeInputs(Tail(stock_inputs))
         IN  IF h # "" THEN <<h>> \o t ELSE t

(***************************************************************************)
(* Index snapshot and its persistence.                                     *)
(***************************************************************************)
EmptyIndexData ==
    [timestamp |-> 0, scanned_funds |-> {}, index |-> EmptyMap,
     fund_quarters |-> EmptyMap, fund_stocks |-> EmptyMap]

NoFile == [state |-> "missing", data |-> EmptyIndexData]

\* load_reverse_index: file d, holdings directory mtime mt
LoadReverseIndexNoCheck(d, mt) ==
    IF d.state = "missing" THEN EmptyIndexData ELSE d.data

LoadReverseIndexNoBuffer(d, mt) ==
    IF d.state = "missing" THEN EmptyIndexData
    ELSE IF mt >= d.data.timestamp THEN EmptyIndexData
    ELSE d.data

LoadReverseIndexNoGrace(d, mt) ==
    IF d.state = "missing" THEN EmptyIndexData
    ELSE IF d.state \in {"partial", "invalid"} THEN EmptyIndexData
    ELSE IF mt > d.data.timestamp THEN EmptyIndexData
    ELSE d.data

\* invalid as soon as the directory is not older than the snapshot
LoadReverseIndexNotOlder(d, mt) ==
    IF d.state = "missing" THEN EmptyIndexData
    ELSE IF d.state \in {"partial", "invalid"} THEN EmptyIndexData
    ELSE IF mt >= d.data.timestamp THEN EmptyIndexData
    ELSE d.data

load_reverse_index(d, mt) ==
    IF d.state = "missing" THEN EmptyIndexData
    \* json.load raises on a file that holds part of a dump or no JSON at all:
    \* "except Exception"
    ELSE IF d.state \in {"partial", "invalid"} THEN EmptyIndexData
    ELSE IF mt > d.data.timestamp + GRACE THEN EmptyIndexData
    ELSE d.data

\* The dict that load_reverse_index returns has no key 'scanned_funds': the file is
\* a JSON object without that key (state "nokey", data: its other keys) and passes
\* the mtime check, so line 46 returns it as it was read.
LacksScannedFunds(d, mt) ==
    /\ d.state = "nokey"
    /\ ~ (mt > d.data.timestamp + GRACE)

SaveReverseIndexNoTimestamp(index_data, t) ==
    [state |-> "ok", data |-> index_data]

\* save_reverse_index at time t
save_reverse_index(index_data, t) ==
    [state |-> "ok", data |-> [index_data EXCEPT !.timestamp = t]]

(***************************************************************************)
(* process_single_fund: extraction of a fund's stocks from its holdings    *)
(* rows.  A DataFrame is [cols, rows]; a row is [code, name, quarter].     *)
(***************************************************************************)
EmptyDF == [cols |-> {}, rows |-> << >>]

\* position of a label in the string order
LabelPos(l) == CHOOSE i \in 1..Len(QuarterLabels) : QuarterLabels[i] = l

\* df['季度'].min(): the earliest label instead of the latest
MinQuarter(rows) ==
    CHOOSE q \in {rows[i].quarter : i \in 1..Len(rows)} :
        \A i \in 1..Len(rows) : LabelPos(q) <= LabelPos(rows[i].quarter)

\* df['季度'].max()
MaxQuarter(rows) ==
    CHOOSE q \in {rows[i].quarter : i \in 1..Len(rows)} :
        \A i \in 1..Len(rows) : LabelPos(rows[i].quarter) <= LabelPos(q)

\* df[df['季度'] == latest_quarter]
RECURSIVE FilterQuarter(_, _)
FilterQuarter(rows, q) ==
    IF rows = << >> THEN << >>
    ELSE IF Head(rows).quarter = q
         THEN <<Head(rows)>> \o FilterQuarter(Tail(rows), q)
         ELSE FilterQuarter(Tail(rows), q)

StocksOf(rows) == [i \in 1..Len(rows) |-> [code |-> rows[i].code, name |-> rows[i].name]]

\* step 3 of process_single_fund: the (fund_code, stocks, latest_quarter) it returns
ExtractStocks(fund_code, df) ==
    IF df.rows = << >> THEN [fund |-> fund_code, stocks |-> << >>, quarter |-> Unknown]
    ELSE IF "code" \notin df.cols \/ "name" \notin df.cols
         THEN [fund |-> fund_code, stocks |-> << >>, quarter |-> Unknown]
    ELSE IF "quarter" \in df.cols
         THEN LET latest == MaxQuarter(df.rows)
              IN  [fund |-> fund_code,
                   stocks |-> StocksOf(FilterQuarter(df.rows, latest)),
                   quarter |-> latest]
         ELSE [fund |-> fund_code, stocks |-> StocksOf(df.rows), quarter |-> Unknown]

(***************************************************************************)
(* The fold of one fund result into the index (search_funds_by_stocks_async*)
(* loop body).                                                             *)
(***************************************************************************)
\* 1. clean up the old keys of the fund
RECURSIVE RemoveOldKeys(_, _, _)
RemoveOldKeys(index, old_keys, f_code) ==
    IF old_keys = << >> THEN index
    ELSE LET key == Head(old_keys)
             idx == IF key \in DOMAIN index /\ InList(index[key], f_code)
                    THEN LET l == ListRemove(index[key], f_code)
                         IN  IF l = << >> THEN MapDel(index, key)
                             ELSE MapPut(index, key, l)
                    ELSE index
         IN  RemoveOldKeys(idx, Tail(old_keys), f_code)

\* index one key: create the list if missing, append the fund unless present
IndexKeyNoGuard(index, key, f_code) ==
    LET l == IF key \in DOMAIN index THEN index[key] ELSE << >>
    IN  MapPut(index, key, Append(l, f_code))

IndexKey(index, key, f_code) ==
    LET l == IF key \in DOMAIN index THEN index[key] ELSE << >>
    IN  MapPut(index, key, IF InList(l, f_code) THEN l ELSE Append(l, f_code))

RECURSIVE AddNewStocksCodeOnly(_, _, _, _)
AddNewStocksCodeOnly(index, new_keys, stocks, f_code) ==
    IF stocks = << >> THEN [index |-> index, new_keys |-> new_keys]
    ELSE LET s_code == Head(stocks).code
             i1 == IndexKey(index, s_code, f_code)
         IN  AddNewStocksCodeOnly(i1, new_keys \o <<s_code>>, Tail(stocks), f_code)

\* 2. add the new stocks: [index, new_keys]
RECURSIVE AddNewStocks(_, _, _, _)
AddNewStocks(index, new_keys, stocks, f_code) ==
    IF stocks = << >> THEN [index |-> index, new_keys |-> new_keys]
    ELSE LET s_code == Head(stocks).code
             s_name == Head(stocks).name
             i1 == IndexKey(index, s_code, f_code)
             i2 == IndexKey(i1, s_name, f_code)
         IN  AddNewStocks(i2, new_keys \o <<s_code, s_name>>, Tail(stocks), f_code)

ApplyFundResultNoCleanup(cache_data, res) ==
    LET add == AddNewStocks(cache_data.index, << >>, res.stocks, res.fund)
    IN  [cache_data EXCEPT
            !.index = add.index,
            !.scanned_funds = @ \cup {res.fund},
            !.fund_quarters = MapPut(@, res.fund, res.quarter),
            !.fund_stocks = MapPut(@, res.fund, add.new_keys)]

ApplyFundResultSkipEmpty(cache_data, res) ==
    IF res.stocks = << >> THEN cache_data
    ELSE ApplyFundResultNoCleanup(
             [cache_data EXCEPT !.index =
                 IF res.fund \in DOMAIN cache_data.fund_stocks
                 THEN RemoveOldKeys(@, cache_data.fund_stocks[res.fund], res.fund)
                 ELSE @], res)

ApplyFundResultNoScanned(cache_data, res) ==
    [ApplyFundResultNoCleanup(
         [cache_data EXCEPT !.index =
             IF res.fund \in DOMAIN cache_data.fund_stocks
             THEN RemoveOldKeys(@, cache_data.fund_stocks[res.fund], res.fund)
             ELSE @], res)
        EXCEPT !.scanned_funds = cache_data.scanned_funds]

\* the body of "for res in results"
ApplyFundResult(cache_data, res) ==
    LET cleaned == IF res.fund \in DOMAIN cache_data.fund_stocks
                   THEN RemoveOldKeys(cache_data.index,
                                      cache_data.fund_stocks[res.fund], res.fund)
                   ELSE cache_data.index
        add == AddNewStocks(cleaned, << >>, res.stocks, res.fund)
    IN  [cache_data EXCEPT
            !.index = add.index,
            !.scanned_funds = @ \cup {res.fund},
            !.fund_quarters = MapPut(@, res.fund, res.quarter),
            !.fund_stocks = MapPut(@, res.fund, add.new_keys)]

RECURSIVE FoldResultsAbortOnEmpty(_, _)
FoldResultsAbortOnEmpty(cache_data, results) ==
    IF results = << >> \/ Head(results).stocks = << >> THEN cache_data
    ELSE FoldResultsAbortOnEmpty(ApplyFundResult(cache_data, Head(results)), Tail(results))

\* for res in results: ...
RECURSIVE FoldResults(_, _)
FoldResults(cache_data, results) ==
    IF results = << >> THEN cache_data
    ELSE FoldResults(ApplyFundResult(cache_data, Head(results)), Tail(results))

(***************************************************************************)
(* The query over the index (shared by search_funds_by_stocks_async and    *)
(* query_reverse_index_direct).                                            *)
(***************************************************************************)
AddHitAlwaysAppend(fund_hits, f_code, inp) ==
    Append(fund_hits, [fund |-> f_code, matches |-> {inp}])

\* fund_hits[f_code].add(inp); fund_hits keeps insertion order
AddHit(fund_hits, f_code, inp) ==
    IF \E i \in 1..Len(fund_hits) : fund_hits[i].fund = f_code
    THEN [i \in 1..Len(fund_hits) |->
             IF fund_hits[i].fund = f_code
             THEN [fund_hits[i] EXCEPT !.matches = @ \cup {inp}]
             ELSE fund_hits[i]]
    ELSE Append(fund_hits, [fund |-> f_code, matches |-> {inp}])

\* every fund listed under the term counts, in the scope or not
RECURSIVE HitsOfTermAnyFund(_, _, _, _)
HitsOfTermAnyFund(fund_hits, hit_funds, inp, scope_set) ==
    IF hit_funds = << >> THEN fund_hits
    ELSE HitsOfTermAnyFund(AddHit(fund_hits, Head(hit_funds), inp),
                           Tail(hit_funds), inp, scope_set)

RECURSIVE HitsOfTerm(_, _, _, _)
HitsOfTerm(fund_hits, hit_funds, inp, scope_set) ==
    IF hit_funds = << >> THEN fund_hits
    ELSE HitsOfTerm(IF Head(hit_funds) \in scope_set
                    THEN AddHit(fund_hits, Head(hit_funds), inp)
                    ELSE fund_hits,
                    Tail(hit_funds), inp, scope_set)

RECURSIVE FundHits(_, _, _, _)
FundHits(fund_hits, inputs, index, scope_set) ==
    IF inputs = << >> THEN fund_hits
    ELSE FundHits(IF Head(inputs) \in DOMAIN index
                  THEN HitsOfTerm(fund_hits, index[Head(inputs)], Head(inputs), scope_set)
                  ELSE fund_hits,
                  Tail(inputs), index, scope_set)

\* match_degree is the quotient num / den, kept as the pair <<num, den>>
DegreeEq(a, b) == a[1] * b[2] = b[1] * a[2]
DegreeGt(a, b) == a[1] * b[2] > b[1] * a[2]

ResultRowRawCount(hit, inputs, raw_inputs, quarters) ==
    [fund_code |-> hit.fund,
     match_count |-> Cardinality(hit.matches),
     match_degree |-> <<Cardinality(hit.matches), Len(raw_inputs)>>,
     matched_stocks |-> hit.matches,
     quarter |-> IF hit.fund \in DOMAIN quarters THEN quarters[hit.fund] ELSE Unknown]

\* one row of final_results; raw_inputs is the list before normalisation
ResultRow(hit, inputs, raw_inputs, quarters) ==
    [fund_code |-> hit.fund,
     match_count |-> Cardinality(hit.matches),
     match_degree |-> <<Cardinality(hit.matches), Len(inputs)>>,
     matched_stocks |-> hit.matches,
     quarter |-> IF hit.fund \in DOMAIN quarters THEN quarters[hit.fund] ELSE Unknown]

\* row a sorts strictly before row b (both columns descending)
RowBefore(a, b) ==
    \/ a.match_count > b.match_count
    \/ /\ a.match_count = b.match_count
       /\ DegreeGt(a.match_degree, b.match_degree)

RECURSIVE InsertRow(_, _)
InsertRow(x, sorted) ==
    IF sorted = << >> THEN <<x>>
    ELSE IF RowBefore(Head(sorted), x)
         THEN <<Head(sorted)>> \o InsertRow(x, Tail(sorted))
         ELSE <<x>> \o sorted

\* results_df.sort_values(by=['match_count', 'match_degree'], ascending=False)
RECURSIVE SortValues(_)
SortValues(rows) ==
    IF rows = << >> THEN << >>
    ELSE InsertRow(Head(rows), SortValues(Tail(rows)))

\* "Query Index" .. return of both query paths
QueryIndex(cache_data, inputs, raw_inputs, filter_fund_codes) ==
    LET hits == FundHits(<< >>, inputs, cache_data.index, Range(filter_fund_codes))
        final_results == [i \in 1..Len(hits) |->
                             ResultRow(hits[i], inputs, raw_inputs, cache_data.fund_quarters)]
    IN  SortValues(final_results)

(***************************************************************************)
(* State.                                                                  *)
(***************************************************************************)
VARIABLES
    now,            \* time.time()
    hmtime,         \* os.path.getmtime(HOLDINGS_DIR), 0 while the directory is missing
    disk,           \* REVERSE_INDEX_FILE: [state, data], state missing, ok or partial
    csv,            \* funds whose holdings file <fund>_<year>.csv is in HOLDINGS_DIR
    holdings,       \* what the holdings provider (and so the csv file) yields per fund
    call,           \* record of the last call of the analyzer's entry points
    writers,        \* per UI session: a search_funds_by_stocks_async call in flight
    committed,      \* funds folded by the batches that have saved so far
    search_running,             \* st.session_state.search_running
    search_paused,              \* st.session_state.search_paused
    search_queue,               \* st.session_state.search_queue
    search_total,               \* st.session_state.search_total
    search_inputs,              \* st.session_state.search_inputs
    search_results_accumulated, \* st.session_state.search_results_accumulated
    search_results_df,          \* st.session_state['search_results_df'] (rows shown)
    phase,          \* state of the scan loop: Idle, Running, Paused, Done, Stopped
    run             \* history of the current search: what the loop has done so far

envVars == <<now, hmtime, disk, csv, holdings>>
sessionVars == <<search_running, search_paused, search_queue, search_total, search_inputs,
                 search_results_accumulated, search_results_df, phase, run>>
vars == <<now, hmtime, disk, csv, holdings, call, writers, committed,
          search_running, search_paused, search_queue, search_total, search_inputs,
          search_results_accumulated, search_results_df, phase, run>>

(***************************************************************************)
(* Holdings data the provider can hold (rows of code, name, period).       *)
(***************************************************************************)
AllCols == {"code", "name", "quarter"}

Row(c, n, q) == [code |-> c, name |-> n, quarter |-> q]

\* F1: two periods; F2: one period, two stocks; F3: no holdings (bond fund)
HoldingsA ==
    [f \in Funds |->
        CASE f = "F1" -> [cols |-> AllCols,
                          rows |-> <<Row("c1", "n1", "2024Q2"), Row("c2", "n2", "2024Q1")>>]
          [] f = "F2" -> [cols |-> AllCols,
                          rows |-> <<Row("c1", "n1", "2024Q2"), Row("c2", "n2", "2024Q2")>>]
          [] OTHER    -> EmptyDF]

\* F1: no period column, a repeated row; F2: a stock name with a leading blank;
\* F3: the stock code column is missing
HoldingsB ==
    [f \in Funds |->
        CASE f = "F1" -> [cols |-> {"code", "name"},
                          rows |-> <<Row("c1", "n1", ""), Row("c1", "n1", "")>>]
          [] f = "F2" -> [cols |-> AllCols,
                          rows |-> <<Row("c3", " n3", "2024Q1"), Row("c1", "n1", "2024Q1")>>]
          [] OTHER    -> [cols |-> {"name", "quarter"},
                          rows |-> <<Row("", "n2", "2024Q1")>>]]

HoldingsChoices == {HoldingsA, HoldingsB}

NoCall == [fn |-> "none", stock_inputs |-> << >>, filter_fund_codes |-> << >>,
           loaded |-> EmptyIndexData, submitted |-> << >>, failed |-> {},
           results |-> << >>, trace |-> << >>, result |-> << >>, raised |-> FALSE, covered |-> FALSE,
           saved |-> "no"]

\* the UI sessions (script threads) that can run a batch at the same time
Sessions == {"A", "B"}

IdleWriter == [pc |-> "idle", stock_inputs |-> << >>, filter_fund_codes |-> << >>,
               cache_data |-> EmptyIndexData,
               \* the tasks of the call (waiting for the semaphore, running, done),
               \* what each returned, those whose provider request failed, and
               \* how often the call has written the index file
               tasks |-> << >>, results |-> << >>, failed |-> {}, saves |-> 0,
               \* a button pressed while the script run of the session is busy
               click |-> "none"]

\* history of a search: the snapshot loaded by the click, the pending funds in queue
\* order, the funds matched so far (immediate answer and chunks), the result each
\* scanned fund gave, whether the holdings store was written from outside, whether a
\* chunk was scanned (chunks = 1), whether the loop was resumed after a chunk, and
\* whether the script ran to its end after the loop ended
NoRun == [start |-> EmptyIndexData, pending |-> << >>, matched |-> {},
          log |-> << >>, touched |-> FALSE, chunks |-> 0, resumed |-> FALSE,
          shown |-> FALSE,
          \* the funds of the chunks whose call raised
          dropped |-> {}]

Init ==
    /\ now = 1
    /\ hmtime = 0
    /\ disk = NoFile
    /\ csv = {}
    /\ holdings \in HoldingsChoices
    /\ call = NoCall
    /\ writers = [w \in Sessions |-> IdleWriter]
    /\ committed = {}
    /\ search_running = FALSE
    /\ search_paused = FALSE
    /\ search_queue = << >>
    /\ search_total = 0
    /\ search_inputs = << >>
    /\ search_results_accumulated = << >>
    /\ search_results_df = << >>
    /\ phase = "Idle"
    /\ run = NoRun

(***************************************************************************)
(* Environment: the clock, and writers of the holdings store other than    *)
(* the scan (the fund detail views of app.py call fetch_fund_holdings).    *)
(***************************************************************************)
Tick ==
    /\ now < MaxTime
    /\ now' = now + 1
    /\ UNCHANGED <<hmtime, disk, csv, holdings, call, writers, committed>>
    /\ UNCHANGED sessionVars

\* save_fund_holdings_to_cache for a fund or year outside the scan
TouchHoldings ==
    /\ hmtime < now
    /\ hmtime' = now
    /\ run' = [run EXCEPT !.touched = TRUE]
    /\ UNCHANGED <<now, disk, csv, holdings, call, writers, committed>>
    /\ UNCHANGED <<search_running, search_paused, search_queue, search_total, search_inputs,
                   search_results_accumulated, search_results_df, phase>>

(***************************************************************************)
(* search_funds_by_stocks_async as one call (the caller blocks on it).     *)
(***************************************************************************)
\* unscanned_codes = [c for c in filter_fund_codes if c not in scanned_set]
UnscannedCodesAll(filter_fund_codes, scanned_set) == filter_fund_codes

RECURSIVE UnscannedCodes(_, _)
UnscannedCodes(filter_fund_codes, scanned_set) ==
    IF filter_fund_codes = << >> THEN << >>
    ELSE IF Head(filter_fund_codes) \notin scanned_set
         THEN <<Head(filter_fund_codes)>> \o UnscannedCodes(Tail(filter_fund_codes), scanned_set)
         ELSE UnscannedCodes(Tail(filter_fund_codes), scanned_set)

\* the snapshots after 0, 1, 2, ... folded results
RECURSIVE FoldTrace(_, _)
FoldTrace(cache_data, results) ==
    IF results = << >> THEN <<cache_data>>
    ELSE <<cache_data>> \o FoldTrace(ApplyFundResult(cache_data, Head(results)), Tail(results))

\* the tasks of a call whose provider request can fail: those of funds without a file
FailablePositions(filter_fund_codes, d, mt, cs, flaky) ==
    LET u == UnscannedCodes(filter_fund_codes, load_reverse_index(d, mt).scanned_funds)
    IN  {i \in 1..Len(u) : u[i] \notin cs /\ u[i] \in flaky}

\* What one call computes from the file d, the directory mtime mt, the holdings
\* files cs and the provider data hold; fails: the tasks whose provider request
\* fails (process_single_fund then goes on with an empty DataFrame).
SearchBatchFrom(stock_inputs, filter_fund_codes, cache_data, cs, hold, fails) ==
    LET inputs == NormalizeInputs(stock_inputs)
        unscanned_codes == UnscannedCodes(filter_fund_codes, cache_data.scanned_funds)
        results == [i \in 1..Len(unscanned_codes) |->
                       ExtractStocks(unscanned_codes[i],
                                     IF i \in fails THEN EmptyDF
                                     ELSE hold[unscanned_codes[i]])]
        folded == FoldResults(cache_data, results)
    IN  IF inputs = << >> \/ filter_fund_codes = << >>
        THEN [ran |-> FALSE, loaded |-> EmptyIndexData, submitted |-> << >>,
              failed |-> {}, results |-> << >>, cache_data |-> EmptyIndexData, updated |-> FALSE,
              fetched |-> {}, result |-> << >>]
        ELSE [ran |-> TRUE, loaded |-> cache_data, submitted |-> unscanned_codes,
              failed |-> fails, results |-> results, cache_data |-> folded,
              updated |-> unscanned_codes # << >>,
              \* fetch_fund_holdings writes the file of a fund that had none
              fetched |-> {unscanned_codes[i] : i \in
                              {j \in 1..Len(unscanned_codes) :
                                   /\ j \notin fails
                                   /\ unscanned_codes[j] \notin cs
                                   /\ hold[unscanned_codes[j]].rows # << >>}},
              result |-> QueryIndex(folded, inputs, stock_inputs, filter_fund_codes)]

\* the call from its first line: the index is loaded from the file d
SearchBatch(stock_inputs, filter_fund_codes, d, mt, cs, hold, fails) ==
    SearchBatchFrom(stock_inputs, filter_fund_codes, load_reverse_index(d, mt), cs, hold,
                    fails)

CallRecord(fn, stock_inputs, filter_fund_codes, b) ==
    [fn |-> fn, stock_inputs |-> stock_inputs, filter_fund_codes |-> filter_fund_codes,
     loaded |-> b.loaded, submitted |-> b.submitted, failed |-> b.failed,
     results |-> b.results,
     trace |-> IF b.ran THEN FoldTrace(b.loaded, b.results) ELSE << >>,
     result |-> b.result, raised |-> FALSE, covered |-> FALSE,
     \* line 203: save_reverse_index is called when the batch folded a result
     saved |-> IF b.updated THEN "ok" ELSE "no"]

\* the effect of the call on the files; the fetches come first, the save d later
BatchEffect(b, d) ==
    /\ now + d <= MaxTime
    /\ now' = now + d
    /\ csv' = csv \cup b.fetched
    /\ hmtime' = IF b.fetched # {} THEN now ELSE hmtime
    /\ disk' = IF b.updated THEN save_reverse_index(b.cache_data, now + d) ELSE disk
    /\ committed' = IF b.updated THEN committed \cup Range(b.submitted) ELSE committed
    /\ UNCHANGED holdings

\* line 148, cache_data['scanned_funds'], raises KeyError on a dict without the key
SearchRaisesAnyScope(stock_inputs, filter_fund_codes, d, mt) ==
    /\ NormalizeInputs(stock_inputs) # << >>
    /\ LacksScannedFunds(d, mt)

SearchRaises(stock_inputs, filter_fund_codes, d, mt) ==
    /\ NormalizeInputs(stock_inputs) # << >>
    /\ filter_fund_codes # << >>
    /\ LacksScannedFunds(d, mt)

SearchAsync(stock_inputs, filter_fund_codes) ==
    IF SearchRaises(stock_inputs, filter_fund_codes, disk, hmtime)
    THEN /\ call' = [NoCall EXCEPT !.fn = "search_funds_by_stocks_async",
                                   !.stock_inputs = stock_inputs,
                                   !.filter_fund_codes = filter_fund_codes,
                                   !.raised = TRUE]
         /\ UNCHANGED envVars
         /\ UNCHANGED <<writers, committed>>
         /\ UNCHANGED sessionVars
    ELSE
    \E fails \in SUBSET FailablePositions(filter_fund_codes, disk, hmtime, csv, Funds) :
        LET b == SearchBatch(stock_inputs, filter_fund_codes, disk, hmtime, csv,
                             holdings, fails)
        IN  /\ b.ran \/ fails = {}
            /\ \E d \in 0..1 : (b.updated \/ d = 0) /\ BatchEffect(b, d)
            /\ call' = CallRecord("search_funds_by_stocks_async", stock_inputs,
                                  filter_fund_codes, b)
            /\ UNCHANGED writers
            /\ UNCHANGED sessionVars

\* search_funds_by_stocks, the sync wrapper: asyncio.run of the search when the
\* scope is given and not empty, an empty DataFrame otherwise
SearchSync(stock_inputs, filter_fund_codes) ==
    IF filter_fund_codes # << >>
    THEN SearchAsync(stock_inputs, filter_fund_codes)
    ELSE /\ call' = [NoCall EXCEPT !.fn = "search_funds_by_stocks",
                                   !.stock_inputs = stock_inputs]
         /\ UNCHANGED envVars
         /\ UNCHANGED <<writers, committed>>
         /\ UNCHANGED sessionVars

\* query_reverse_index_direct
QueryDirectResult(stock_inputs, filter_fund_codes, d, mt) ==
    LET inputs == NormalizeInputs(stock_inputs)
    IN  IF inputs = << >> THEN << >>
        ELSE QueryIndex(load_reverse_index(d, mt), inputs, stock_inputs, filter_fund_codes)

QueryDirect(stock_inputs, filter_fund_codes) ==
    /\ call' = [fn |-> "query_reverse_index_direct", stock_inputs |-> stock_inputs,
                filter_fund_codes |-> filter_fund_codes,
                loaded |-> load_reverse_index(disk, hmtime), submitted |-> << >>,
                failed |-> {}, results |-> << >>, trace |-> << >>,
                result |-> QueryDirectResult(stock_inputs, filter_fund_codes, disk, hmtime),
                raised |-> FALSE, covered |-> FALSE, saved |-> "no"]
    /\ UNCHANGED envVars
    /\ UNCHANGED <<writers, committed>>
    /\ UNCHANGED sessionVars

\* the calls of the entry points that the model makes: <<terms, scope>>
ApiSearchCalls ==
    {<< <<"c1">>, <<"F1">> >>,
     << <<"n1">>, <<"F1", "F1">> >>,
     << <<"c2", "c1">>, <<"F3", "F1", "F2">> >>,
     << <<"c1", " ", " c1">>, <<"F2", "F3">> >>,
     << <<" ">>, <<"F3">> >>}

ApiQueryCalls ==
    {<< <<"c1", "c2", "n1">>, <<"F1", "F2">> >>,
     << <<"c1", " ", " c1">>, <<"F3", "F2", "F2">> >>}

NextApi ==
    \/ Tick
    \/ TouchHoldings
    \/ \E c \in ApiSearchCalls : SearchAsync(c[1], c[2])
    \/ \E c \in ApiQueryCalls : QueryDirect(c[1], c[2])

SpecApi == Init /\ [][NextApi]_vars

\* single-term, single-fund searches by stock codes and names of the data
MatchTerms == {"c1", "n2", "c3", " n3"}

NextMatch ==
    \/ \E t \in MatchTerms, f \in Funds : SearchAsync(<<t>>, <<f>>)

SpecMatch == Init /\ [][NextMatch]_vars

(***************************************************************************)
(* The three-fund example: F1 holds 600519, F2 holds 300750, F3 holds      *)
(* nothing; the terms are both codes and the scope is the three funds.     *)
(***************************************************************************)
HoldingsC ==
    [f \in Funds |->
        CASE f = "F1" -> [cols |-> AllCols, rows |-> <<Row("600519", "Moutai", "2024Q2")>>]
          [] f = "F2" -> [cols |-> AllCols, rows |-> <<Row("300750", "CATL", "2024Q2")>>]
          [] OTHER    -> EmptyDF]

\* the same with the stock name column missing from the frame of F2
HoldingsD ==
    [f \in Funds |->
        CASE f = "F1" -> [cols |-> AllCols, rows |-> <<Row("600519", "Moutai", "2024Q2")>>]
          [] f = "F2" -> [cols |-> {"code", "quarter"},
                          rows |-> <<Row("300750", "", "2024Q2")>>]
          [] OTHER    -> EmptyDF]

ScenarioTerms == <<"600519", "300750">>

ScenarioScopes == {<<"F1", "F2", "F3">>, <<"F3", "F2", "F1">>, <<"F3">>}

InitScenario ==
    /\ now = 1
    /\ hmtime = 0
    /\ disk = NoFile
    /\ csv = {}
    /\ holdings \in {HoldingsC, HoldingsD}
    /\ call = NoCall
    /\ writers = [w \in Sessions |-> IdleWriter]
    /\ committed = {}
    /\ search_running = FALSE
    /\ search_paused = FALSE
    /\ search_queue = << >>
    /\ search_total = 0
    /\ search_inputs = << >>
    /\ search_results_accumulated = << >>
    /\ search_results_df = << >>
    /\ phase = "Idle"
    /\ run = NoRun

NextScenario ==
    \/ Tick
    \/ TouchHoldings
    \/ \E scope \in ScenarioScopes : SearchAsync(ScenarioTerms, scope)
    \/ \E scope \in ScenarioScopes : QueryDirect(ScenarioTerms, scope)

SpecScenario == InitScenario /\ [][NextScenario]_vars

(***************************************************************************)
(* Two UI sessions: each runs its script in a thread of its own, so a call *)
(* of search_funds_by_stocks_async is two steps, the load and, after the   *)
(* gathered tasks, the fold with the save.  Nothing in analyzer.py or      *)
(* app.py locks the file between the two.                                  *)
(***************************************************************************)
TwoInputs == <<"c1">>

TwoScopes == {<<"F1">>, <<"F2", "F3">>, <<"F1", "F2">>}

\* lines 142-151: normalise, load the index, find the unscanned funds
BeginBatch(w, filter_fund_codes) ==
    /\ writers[w].pc = "idle"
    /\ LET cache_data == load_reverse_index(disk, hmtime)
       IN  /\ UnscannedCodes(filter_fund_codes, cache_data.scanned_funds) # << >>
           /\ writers' = [writers EXCEPT ![w] =
                             [IdleWriter EXCEPT !.pc = "gather",
                                                !.stock_inputs = TwoInputs,
                                                !.filter_fund_codes = filter_fund_codes,
                                                !.cache_data = cache_data]]
    /\ UNCHANGED <<now, hmtime, disk, csv, holdings, call, committed>>
    /\ UNCHANGED sessionVars

\* lines 154-243: the tasks, the fold into the snapshot loaded by BeginBatch, the save
CommitBatch(w) ==
    /\ writers[w].pc = "gather"
    /\ LET b == SearchBatchFrom(writers[w].stock_inputs, writers[w].filter_fund_codes,
                                writers[w].cache_data, csv, holdings, {})
       IN  /\ \E d \in 0..1 : BatchEffect(b, d)
           /\ call' = CallRecord("search_funds_by_stocks_async", writers[w].stock_inputs,
                                 writers[w].filter_fund_codes, b)
    /\ writers' = [writers EXCEPT ![w] = IdleWriter]
    /\ UNCHANGED sessionVars

NextTwo ==
    \/ Tick
    \/ \E w \in Sessions, s \in TwoScopes : BeginBatch(w, s)
    \/ \E w \in Sessions : CommitBatch(w)

SpecTwo == Init /\ [][NextTwo]_vars

(***************************************************************************)
(* save_reverse_index step by step: open(REVERSE_INDEX_FILE, 'w') empties  *)
(* the file, json.dump then writes the snapshot into it piece by piece.    *)
(* Between the two the file holds part of a dump; the write can fail (the  *)
(* exception is printed, line 56-57) or the process can be ended there.    *)
(***************************************************************************)
PartialFile == [state |-> "partial", data |-> EmptyIndexData]

\* lines 154-208 and 53-54: tasks, fold, timestamp, the file opened for writing
OpenIndexFile(w) ==
    /\ writers[w].pc = "gather"
    /\ LET b == SearchBatchFrom(writers[w].stock_inputs, writers[w].filter_fund_codes,
                                writers[w].cache_data, csv, holdings, {})
       IN  /\ csv' = csv \cup b.fetched
           /\ hmtime' = IF b.fetched # {} THEN now ELSE hmtime
           /\ writers' = [writers EXCEPT ![w].pc = "writing",
                                         ![w].cache_data =
                                             save_reverse_index(b.cache_data, now).data]
    /\ disk' = PartialFile
    /\ UNCHANGED <<now, holdings, call, committed>>
    /\ UNCHANGED sessionVars

\* line 55 run to its end: the file holds the whole snapshot
DumpIndexFile(w) ==
    /\ writers[w].pc = "writing"
    /\ disk' = [state |-> "ok", data |-> writers[w].cache_data]
    /\ committed' = committed \cup writers[w].cache_data.scanned_funds
    /\ writers' = [writers EXCEPT ![w] = IdleWriter]
    /\ UNCHANGED <<now, hmtime, csv, holdings, call>>
    /\ UNCHANGED sessionVars

\* line 55 fails or the process ends during it: the file stays as it is
InterruptWrite(w) ==
    /\ writers[w].pc = "writing"
    /\ writers' = [writers EXCEPT ![w] = IdleWriter]
    /\ UNCHANGED <<now, hmtime, disk, csv, holdings, call, committed>>
    /\ UNCHANGED sessionVars

SaveQuery == << <<"c1", "c2">>, <<"F1", "F2", "F3">> >>

\* the session that writes; readers are the calls of query_reverse_index_direct
SaveWriter == "A"

NextSave ==
    \/ Tick
    \/ \E s \in TwoScopes : BeginBatch(SaveWriter, s)
    \/ OpenIndexFile(SaveWriter)
    \/ DumpIndexFile(SaveWriter)
    \/ InterruptWrite(SaveWriter)
    \/ QueryDirect(SaveQuery[1], SaveQuery[2])

SpecSave == Init /\ [][NextSave]_vars

(***************************************************************************)
(* A file that is not a snapshot: something other than save_reverse_index  *)
(* wrote REVERSE_INDEX_FILE (an editor, a copy cut short, another version  *)
(* of the program).  It holds no JSON, or a JSON object without the key   *)
(* 'scanned_funds', with a current timestamp or with none (read as 0).     *)
(***************************************************************************)
InvalidFile == [state |-> "invalid", data |-> EmptyIndexData]

NoKeyFile(t) == [state |-> "nokey", data |-> [EmptyIndexData EXCEPT !.timestamp = t]]

CorruptIndexFile ==
    /\ disk' \in {InvalidFile, NoKeyFile(0), NoKeyFile(now)}
    /\ disk' # disk
    /\ UNCHANGED <<now, hmtime, csv, holdings, call, writers, committed>>
    /\ UNCHANGED sessionVars

CorruptCalls ==
    {<< <<"c1">>, <<"F1">> >>,
     << <<" ">>, <<"F3">> >>,
     << <<"c1">>, << >> >>}

SyncCalls ==
    {<< <<"c1">>, << >> >>,
     << <<"n1">>, <<"F2">> >>}

CorruptQueryCalls ==
    {<< <<"c1", " ", " c1">>, <<"F3", "F2", "F2">> >>,
     << <<" ", "">>, <<"F1", "F2">> >>}

NextCorrupt ==
    \/ Tick
    \/ CorruptIndexFile
    \/ \E c \in CorruptCalls : SearchAsync(c[1], c[2])
    \/ \E c \in SyncCalls : SearchSync(c[1], c[2])
    \/ \E c \in CorruptQueryCalls : QueryDirect(c[1], c[2])

SpecCorrupt == Init /\ [][NextCorrupt]_vars

(***************************************************************************)
(* The read paths: load_reverse_index called by the page (app.py:616),     *)
(* check_cache_coverage and query_reverse_index_direct, next to searches,  *)
(* writes to the holdings directory and files that are not snapshots.      *)
(***************************************************************************)
\* check_cache_coverage(fund_codes); cache_data['scanned_funds'] at line 251 raises
\* KeyError on a dict without the key
CheckCacheCoverage(fund_codes) ==
    LET cache_data == load_reverse_index(disk, hmtime)
    IN  /\ call' = [NoCall EXCEPT !.fn = "check_cache_coverage",
                                  !.filter_fund_codes = fund_codes,
                                  !.loaded = cache_data,
                                  !.raised = LacksScannedFunds(disk, hmtime),
                                  !.covered = /\ ~ LacksScannedFunds(disk, hmtime)
                                              /\ cache_data.scanned_funds # {}
                                              /\ Range(fund_codes) \subseteq
                                                     cache_data.scanned_funds]
        /\ UNCHANGED envVars
        /\ UNCHANGED <<writers, committed>>
        /\ UNCHANGED sessionVars

\* a load that removes the file it judges stale or unreadable
LoadReverseIndexRemovesFile ==
    /\ call' = [NoCall EXCEPT !.fn = "load_reverse_index",
                              !.loaded = load_reverse_index(disk, hmtime)]
    /\ disk' = IF disk.state # "missing" /\ load_reverse_index(disk, hmtime) = EmptyIndexData
               THEN NoFile ELSE disk
    /\ UNCHANGED <<now, hmtime, csv, holdings, writers, committed>>
    /\ UNCHANGED sessionVars

\* index_data = load_reverse_index() of the page
LoadReverseIndex ==
    /\ call' = [NoCall EXCEPT !.fn = "load_reverse_index",
                              !.loaded = load_reverse_index(disk, hmtime)]
    /\ UNCHANGED envVars
    /\ UNCHANGED <<writers, committed>>
    /\ UNCHANGED sessionVars

ReadSearchCalls ==
    {<< <<"c1", "n2">>, <<"F2", "F1">> >>}

ReadQueryCalls ==
    {<< <<"c1", "n1">>, <<"F1", "F2">> >>}

CoverageCalls == {<< >>, <<"F1">>, <<"F2", "F1", "F1">>}

NextRead ==
    \/ Tick
    \/ TouchHoldings
    \/ CorruptIndexFile
    \/ \E c \in ReadSearchCalls : SearchAsync(c[1], c[2])
    \/ \E c \in ReadQueryCalls : QueryDirect(c[1], c[2])
    \/ \E c \in CoverageCalls : CheckCacheCoverage(c)
    \/ LoadReverseIndex

SpecRead == Init /\ [][NextRead]_vars

(***************************************************************************)
(* A save that fails: open or json.dump raises (disk full, no permission), *)
(* save_reverse_index prints the exception and returns (lines 56-57).  The *)
(* file stays as it was when open raised, and holds part of a dump when    *)
(* json.dump raised.                                                       *)
(***************************************************************************)
SearchAsyncSaveFails(stock_inputs, filter_fund_codes) ==
    LET b == SearchBatch(stock_inputs, filter_fund_codes, disk, hmtime, csv, holdings, {})
    IN  /\ b.updated
        /\ csv' = csv \cup b.fetched
        /\ hmtime' = IF b.fetched # {} THEN now ELSE hmtime
        /\ disk' \in {disk, PartialFile}
        /\ call' = [CallRecord("search_funds_by_stocks_async", stock_inputs,
                               filter_fund_codes, b) EXCEPT !.saved = "failed"]
        /\ UNCHANGED <<now, holdings, writers, committed>>
        /\ UNCHANGED sessionVars

SaveFailCalls ==
    {<< <<"c1">>, <<"F1">> >>,
     << <<"c1">>, <<"F2", "F3">> >>,
     << <<"c2", "c1">>, <<"F1", "F2">> >>}

NextSaveFail ==
    \/ Tick
    \/ \E c \in SaveFailCalls : SearchAsync(c[1], c[2])
    \/ \E c \in SaveFailCalls : SearchAsyncSaveFails(c[1], c[2])

SpecSaveFail == Init /\ [][NextSaveFail]_vars

(***************************************************************************)
(* The timestamp of a save: line 53 reads the clock into the snapshot,     *)
(* lines 54-55 write the snapshot.  With two sessions the thread of one    *)
(* can run between the two lines of the other.                             *)
(***************************************************************************)
\* lines 154-208 and 53: tasks, fold, index_data['timestamp'] = time.time()
StampSnapshot(w) ==
    /\ writers[w].pc = "gather"
    /\ LET b == SearchBatchFrom(writers[w].stock_inputs, writers[w].filter_fund_codes,
                                writers[w].cache_data, csv, holdings, {})
       IN  /\ csv' = csv \cup b.fetched
           /\ hmtime' = IF b.fetched # {} THEN now ELSE hmtime
           /\ writers' = [writers EXCEPT ![w].pc = "stamped",
                                         ![w].cache_data =
                                             save_reverse_index(b.cache_data, now).data]
    /\ UNCHANGED <<now, disk, holdings, call, committed>>
    /\ UNCHANGED sessionVars

\* lines 54-55 as a whole: the file holds the stamped snapshot
WriteIndexFile(w) ==
    /\ writers[w].pc = "stamped"
    /\ disk' = [state |-> "ok", data |-> writers[w].cache_data]
    /\ committed' = committed \cup writers[w].cache_data.scanned_funds
    /\ writers' = [writers EXCEPT ![w] = IdleWriter]
    /\ UNCHANGED <<now, hmtime, csv, holdings, call>>
    /\ UNCHANGED sessionVars

NextStamp ==
    \/ Tick
    \/ \E w \in Sessions, s \in TwoScopes : BeginBatch(w, s)
    \/ \E w \in Sessions : StampSnapshot(w)
    \/ \E w \in Sessions : WriteIndexFile(w)

SpecStamp == Init /\ [][NextStamp]_vars

(***************************************************************************)
(* One call of search_funds_by_stocks_async task by task: the call creates *)
(* a task per unscanned fund, each task runs process_single_fund inside    *)
(* "async with sem", asyncio.gather returns when all are done, and the     *)
(* rest of the call (fold, save, query) runs without an await.             *)
(***************************************************************************)
\* asyncio.Semaphore(20), scaled to the funds of the model
SemLimit == 2

NoResult == [fund |-> "none", stocks |-> << >>, quarter |-> Unknown]

TaskCalls ==
    {<< <<"c1">>, <<"F1", "F2", "F3">> >>,
     << <<"c2", "c1">>, <<"F2", "F1">> >>,
     << <<"n1">>, <<"F3">> >>}

TaskSession == "A"

InFlight(w) == {i \in 1..Len(writers[w].tasks) : writers[w].tasks[i] = "running"}

\* the call after line 156: the loaded snapshot and a task per unscanned fund
BatchStarted(stock_inputs, filter_fund_codes) ==
    LET cache_data == load_reverse_index(disk, hmtime)
        unscanned_codes == UnscannedCodes(filter_fund_codes, cache_data.scanned_funds)
    IN  [IdleWriter EXCEPT
            !.pc = "tasks",
            !.stock_inputs = stock_inputs,
            !.filter_fund_codes = filter_fund_codes,
            !.cache_data = cache_data,
            !.tasks = [i \in 1..Len(unscanned_codes) |-> "waiting"],
            !.results = [i \in 1..Len(unscanned_codes) |-> NoResult]]

\* lines 142-158: normalise, load, find the unscanned funds, create their tasks
StartBatch(w, stock_inputs, filter_fund_codes) ==
    /\ writers[w].pc = "idle"
    /\ NormalizeInputs(stock_inputs) # << >>
    /\ filter_fund_codes # << >>
    /\ ~ LacksScannedFunds(disk, hmtime)
    /\ writers' = [writers EXCEPT ![w] = BatchStarted(stock_inputs, filter_fund_codes)]
    /\ UNCHANGED <<now, hmtime, disk, csv, holdings, call, committed>>
    /\ UNCHANGED sessionVars

\* the funds of the call's tasks, in task order
TaskCodes(w) ==
    UnscannedCodes(writers[w].filter_fund_codes, writers[w].cache_data.scanned_funds)

EnterTaskNoLimit(w, i) ==
    /\ writers[w].pc = "tasks"
    /\ i \in 1..Len(writers[w].tasks)
    /\ writers[w].tasks[i] = "waiting"
    /\ writers' = [writers EXCEPT ![w].tasks[i] = "running"]
    /\ UNCHANGED <<now, hmtime, disk, csv, holdings, call, committed>>
    /\ UNCHANGED sessionVars

\* line 88: "async with sem" lets the task in when fewer than the limit are inside
EnterTask(w, i) ==
    /\ writers[w].pc = "tasks"
    /\ i \in 1..Len(writers[w].tasks)
    /\ writers[w].tasks[i] = "waiting"
    /\ Cardinality(InFlight(w)) < SemLimit
    /\ writers' = [writers EXCEPT ![w].tasks[i] = "running"]
    /\ UNCHANGED <<now, hmtime, disk, csv, holdings, call, committed>>
    /\ UNCHANGED sessionVars

LeaveTaskAndSave(w, i, ok) ==
    /\ writers[w].pc = "tasks"
    /\ i \in 1..Len(writers[w].tasks)
    /\ writers[w].tasks[i] = "running"
    /\ LET f_code == TaskCodes(w)[i]
           fetch == f_code \notin csv
           res == ExtractStocks(f_code, IF fetch /\ ~ ok THEN EmptyDF ELSE holdings[f_code])
           saved == fetch /\ ok /\ holdings[f_code].rows # << >>
       IN  /\ fetch \/ ok
           /\ csv' = IF saved THEN csv \cup {f_code} ELSE csv
           /\ hmtime' = IF saved THEN now ELSE hmtime
           /\ disk' = save_reverse_index(ApplyFundResult(writers[w].cache_data, res), now)
           /\ writers' = [writers EXCEPT
                             ![w].tasks[i] = "done",
                             ![w].results[i] = res,
                             ![w].failed = IF fetch /\ ~ ok THEN @ \cup {i} ELSE @,
                             ![w].saves = @ + 1]
    /\ UNCHANGED <<now, holdings, call, committed>>
    /\ UNCHANGED sessionVars

\* lines 89-131 and the end of "async with": read the file or ask the provider
\* (ok: the request succeeds), extract, return the result, release the semaphore
LeaveTask(w, i, ok) ==
    /\ writers[w].pc = "tasks"
    /\ i \in 1..Len(writers[w].tasks)
    /\ writers[w].tasks[i] = "running"
    /\ LET f_code == TaskCodes(w)[i]
           fetch == f_code \notin csv
           res == ExtractStocks(f_code, IF fetch /\ ~ ok THEN EmptyDF ELSE holdings[f_code])
           saved == fetch /\ ok /\ holdings[f_code].rows # << >>
       IN  /\ fetch \/ ok
           /\ csv' = IF saved THEN csv \cup {f_code} ELSE csv
           /\ hmtime' = IF saved THEN now ELSE hmtime
           /\ writers' = [writers EXCEPT
                             ![w].tasks[i] = "done",
                             ![w].results[i] = res,
                             ![w].failed = IF fetch /\ ~ ok THEN @ \cup {i} ELSE @]
    /\ UNCHANGED <<now, disk, holdings, call, committed>>
    /\ UNCHANGED sessionVars

\* lines 158-243: gather has every result; fold, save once if a result was folded,
\* query, return
FoldAndSaveEffect(w) ==
    /\ writers[w].pc = "tasks"
    /\ \A i \in 1..Len(writers[w].tasks) : writers[w].tasks[i] = "done"
    /\ LET results == writers[w].results
           updated == results # << >>
           folded == FoldResults(writers[w].cache_data, results)
       IN  /\ disk' = IF updated THEN save_reverse_index(folded, now) ELSE disk
           /\ committed' = IF updated THEN committed \cup Range(TaskCodes(w)) ELSE committed
           /\ call' = [fn |-> "search_funds_by_stocks_async",
                       stock_inputs |-> writers[w].stock_inputs,
                       filter_fund_codes |-> writers[w].filter_fund_codes,
                       loaded |-> writers[w].cache_data,
                       submitted |-> TaskCodes(w),
                       failed |-> writers[w].failed,
                       results |-> results,
                       trace |-> FoldTrace(writers[w].cache_data, results),
                       result |-> QueryIndex(folded, NormalizeInputs(writers[w].stock_inputs),
                                             writers[w].stock_inputs,
                                             writers[w].filter_fund_codes),
                       raised |-> FALSE, covered |-> FALSE,
                       saved |-> IF updated THEN "ok" ELSE "no"]
           /\ writers' = [writers EXCEPT
                             ![w] = [IdleWriter EXCEPT
                                        !.saves = writers[w].saves
                                                  + (IF updated THEN 1 ELSE 0),
                                        !.click = writers[w].click]]
    /\ UNCHANGED <<now, hmtime, csv, holdings>>

FoldAndSave(w) == FoldAndSaveEffect(w) /\ UNCHANGED sessionVars

NextTasks ==
    \/ Tick
    \/ \E c \in TaskCalls : StartBatch(TaskSession, c[1], c[2])
    \/ \E i \in 1..Cardinality(Funds) : EnterTask(TaskSession, i)
    \/ \E i \in 1..Cardinality(Funds), ok \in BOOLEAN : LeaveTask(TaskSession, i, ok)
    \/ FoldAndSave(TaskSession)

SpecTasks == Init /\ [][NextTasks]_vars

(***************************************************************************)
(* The search page of app.py: one action per run of the script.            *)
(***************************************************************************)
\* the permutations of a set, as sequences (list(set) has no defined order)
Perms(S) ==
    {q \in [1..Cardinality(S) -> S] : \A i, j \in 1..Cardinality(S) : q[i] = q[j] => i = j}

FundsOfRows(rows) == {rows[i].fund_code : i \in 1..Len(rows)}

\* results_df.drop_duplicates(subset=['fund_code']): the first row of each fund
RECURSIVE DropDuplicates(_)
DropDuplicates(rows) ==
    IF rows = << >> THEN << >>
    ELSE LET init == DropDuplicates(SubSeq(rows, 1, Len(rows) - 1))
             last == rows[Len(rows)]
         IN  IF last.fund_code \in FundsOfRows(init) THEN init ELSE Append(init, last)

\* the display frame of result rows: the left merge with the fund list (which names
\* each fund of the scope once), renamed columns and links keep rows and order
DisplayDF(rows) == rows

\* "Convert Accumulated to Display DF": what the end of a script run leaves in
\* search_results_df
ConvertAccumulated(running, accumulated, df) ==
    IF ~ running /\ accumulated # << >> /\ df = << >>
    THEN DisplayDF(DropDuplicates(accumulated))
    ELSE df

\* the funds whose provider request can fail during a search of the page
FlakyFunds == {"F2"}

\* the fund list of the page: filter_codes
FilterCodes == <<"F1", "F2", "F3">>

\* the text of the search box, split at commas
ClickInputs == {<<"c1", "c2">>, <<"c3">>}

\* "if search_clicked and stock_input": the click handler, then the rest of the run
SearchClick(inputs, pending_codes) ==
    LET index_data == load_reverse_index(disk, hmtime)
        scanned_set == index_data.scanned_funds
        target_set == Range(FilterCodes)
        cached_codes == target_set \cap scanned_set
        cached_df == IF cached_codes # {}
                     THEN QueryDirectResult(inputs, CHOOSE q \in Perms(cached_codes) : TRUE,
                                            disk, hmtime)
                     ELSE << >>
        shown_df == IF cached_df # << >> THEN DisplayDF(cached_df) ELSE search_results_df
    IN  /\ pending_codes \in Perms(target_set \ scanned_set)
        /\ search_results_accumulated' = cached_df
        /\ search_inputs' = inputs
        /\ IF pending_codes # << >>
           THEN /\ search_running' = TRUE
                /\ search_paused' = FALSE
                /\ search_queue' = pending_codes
                /\ search_total' = Len(pending_codes)
                /\ search_results_df' = shown_df
                /\ phase' = "Running"
           ELSE /\ search_running' = FALSE
                /\ search_results_df' =
                       ConvertAccumulated(FALSE, cached_df,
                                          IF cached_df = << >> THEN << >> ELSE shown_df)
                /\ phase' = "Idle"
                /\ UNCHANGED <<search_paused, search_queue, search_total>>
        /\ run' = [start |-> index_data, pending |-> pending_codes,
                   matched |-> FundsOfRows(cached_df), log |-> << >>,
                   touched |-> FALSE, chunks |-> 0, resumed |-> FALSE,
                   shown |-> pending_codes = << >>, dropped |-> {}]
        /\ UNCHANGED <<now, hmtime, disk, csv, holdings, call, writers, committed>>

StopClickClearsQueue ==
    /\ search_running
    /\ search_running' = FALSE
    /\ search_queue' = << >>
    /\ phase' = "Stopped"
    /\ UNCHANGED <<now, hmtime, disk, csv, holdings, call, writers, committed>>
    /\ UNCHANGED <<search_paused, search_total, search_inputs,
                   search_results_accumulated, search_results_df, run>>

\* a run of the script while search_running, with the stop button pressed
StopClick ==
    /\ search_running
    /\ search_running' = FALSE
    /\ phase' = "Stopped"
    /\ UNCHANGED <<now, hmtime, disk, csv, holdings, call, writers, committed>>
    /\ UNCHANGED <<search_paused, search_queue, search_total, search_inputs,
                   search_results_accumulated, search_results_df, run>>

\* a run of the script while search_running, with the pause / resume button pressed
PauseClick ==
    /\ search_running
    /\ search_paused' = ~ search_paused
    /\ phase' = IF search_paused THEN "Running" ELSE "Paused"
    /\ run' = [run EXCEPT !.resumed = @ \/ (search_paused /\ run.chunks = 1)]
    /\ UNCHANGED <<now, hmtime, disk, csv, holdings, call, writers, committed>>
    /\ UNCHANGED <<search_running, search_queue, search_total, search_inputs,
                   search_results_accumulated, search_results_df>>

\* search_queue[:chunk_size] and search_queue[chunk_size:]
ChunkOfFirst(queue) == SubSeq(queue, 1, 1)

ChunkOf(queue) == SubSeq(queue, 1, IF Len(queue) < ChunkSize THEN Len(queue) ELSE ChunkSize)
\* a slice that starts at the last fund of the chunk instead of after it
RestOfOverlapping(queue) ==
    SubSeq(queue, IF Len(queue) < ChunkSize THEN Len(queue) + 1 ELSE ChunkSize, Len(queue))

RestOf(queue) == SubSeq(queue, (IF Len(queue) < ChunkSize THEN Len(queue) ELSE ChunkSize) + 1,
                        Len(queue))

\* the results of the tasks of a batch, appended to the history
LogResults(log, b) == log \o b.results

CanProcessIgnoringPause(running, paused, queue) == running /\ queue # << >>

CanProcessFullChunksOnly(running, paused, queue) ==
    running /\ ~ paused /\ Len(queue) >= ChunkSize

\* "if search_running" and "if not search_paused and search_queue"
CanProcess(running, paused, queue) == running /\ ~ paused /\ queue # << >>

\* "Process Chunk": a run of the script that pops a chunk and scans it
ProcessChunk ==
    /\ CanProcess(search_running, search_paused, search_queue)
    /\ LET chunk == ChunkOf(search_queue)
       IN  \E fails \in SUBSET FailablePositions(chunk, disk, hmtime, csv, FlakyFunds) :
             LET b == SearchBatch(search_inputs, chunk, disk, hmtime, csv, holdings, fails)
             IN  /\ b.ran \/ fails = {}
                 /\ \E d \in 0..1 : (b.updated \/ d = 0) /\ BatchEffect(b, d)
                 /\ call' = CallRecord("search_funds_by_stocks_async", search_inputs,
                                       chunk, b)
                 /\ UNCHANGED writers
                 /\ search_queue' = RestOf(search_queue)
                 /\ search_results_accumulated' = search_results_accumulated \o b.result
                 /\ run' = [run EXCEPT !.matched = @ \cup FundsOfRows(b.result),
                                       !.log = LogResults(@, b),
                                       !.chunks = IF b.updated THEN 1 ELSE @]
    /\ UNCHANGED <<search_running, search_paused, search_total, search_inputs,
                   search_results_df, phase>>

\* "Finished": a run of the script that finds the queue empty
Finish ==
    /\ search_running
    /\ search_queue = << >>
    /\ search_running' = FALSE
    /\ phase' = "Done"
    /\ UNCHANGED <<now, hmtime, disk, csv, holdings, call, writers, committed>>
    /\ UNCHANGED <<search_paused, search_queue, search_total, search_inputs,
                   search_results_accumulated, search_results_df, run>>

\* a run of the script while not search_running and without a click: it reaches
\* the conversion of the accumulated rows
Render ==
    /\ ~ search_running
    /\ phase \in {"Done", "Stopped"}
    /\ ~ run.shown
    /\ search_results_df' =
           ConvertAccumulated(search_running, search_results_accumulated, search_results_df)
    /\ run' = [run EXCEPT !.shown = TRUE]
    /\ UNCHANGED <<now, hmtime, disk, csv, holdings, call, writers, committed>>
    /\ UNCHANGED <<search_running, search_paused, search_queue, search_total, search_inputs,
                   search_results_accumulated, phase>>

Next ==
    \/ Tick
    \/ TouchHoldings
    \/ \E inputs \in ClickInputs, pending_codes \in UNION {Perms(S) : S \in SUBSET Funds} :
          SearchClick(inputs, pending_codes)
    \/ StopClick
    \/ PauseClick
    \/ ProcessChunk
    \/ Finish
    \/ Render

Spec == Init /\ [][Next]_vars

(***************************************************************************)
(* A chunk step of the loop seen from inside: the script run pops the      *)
(* chunk, blocks in run_async_loop while the tasks of the batch run, and   *)
(* reaches st.rerun() at line 720.  A button pressed meanwhile reaches the *)
(* script only as the widget state of its next run: nothing between line   *)
(* 702 and line 720 reads a button or yields to the framework.             *)
(***************************************************************************)
ChunkInputs == <<"c1", "c2">>

Busy == writers[TaskSession].pc # "idle" \/ writers[TaskSession].click # "none"

\* a click on search while no loop is running
ChunkSearchClick ==
    /\ ~ search_running
    /\ ~ Busy
    /\ \E pending_codes \in UNION {Perms(S) : S \in SUBSET Funds} :
          SearchClick(ChunkInputs, pending_codes)

\* lines 702-705 and the call up to the creation of its tasks
PopChunk ==
    /\ ~ Busy
    /\ CanProcess(search_running, search_paused, search_queue)
    /\ search_queue' = RestOf(search_queue)
    /\ writers' = [writers EXCEPT ![TaskSession] =
                      BatchStarted(search_inputs, ChunkOf(search_queue))]
    /\ UNCHANGED <<now, hmtime, disk, csv, holdings, call, committed>>
    /\ UNCHANGED <<search_running, search_paused, search_total, search_inputs,
                   search_results_accumulated, search_results_df, phase, run>>

\* the rest of the call, lines 715-716 and st.rerun()
MergeChunk ==
    /\ FoldAndSaveEffect(TaskSession)
    /\ search_results_accumulated' = search_results_accumulated \o call'.result
    /\ run' = [run EXCEPT !.matched = @ \cup FundsOfRows(call'.result),
                          !.log = @ \o call'.results,
                          !.chunks = 1]
    /\ UNCHANGED <<search_running, search_paused, search_queue, search_total, search_inputs,
                   search_results_df, phase>>

PressButtonCancels(button) ==
    /\ writers[TaskSession].pc = "tasks"
    /\ search_running
    /\ IF button = "stop"
       THEN search_running' = FALSE /\ phase' = "Stopped" /\ UNCHANGED search_paused
       ELSE search_paused' = TRUE /\ phase' = "Paused" /\ UNCHANGED search_running
    /\ UNCHANGED <<now, hmtime, disk, csv, holdings, call, writers, committed>>
    /\ UNCHANGED <<search_queue, search_total, search_inputs,
                   search_results_accumulated, search_results_df, run>>

\* stop or pause pressed while the script run is inside the chunk
PressButton(button) ==
    /\ writers[TaskSession].pc = "tasks"
    /\ writers[TaskSession].click = "none"
    /\ writers' = [writers EXCEPT ![TaskSession].click = button]
    /\ UNCHANGED <<now, hmtime, disk, csv, holdings, call, committed>>
    /\ UNCHANGED sessionVars

\* the run after st.rerun(): lines 692-699 with the button that was pressed
HonourButton ==
    /\ writers[TaskSession].pc = "idle"
    /\ writers[TaskSession].click # "none"
    /\ search_running
    /\ IF writers[TaskSession].click = "stop"
       THEN search_running' = FALSE /\ phase' = "Stopped" /\ UNCHANGED search_paused
       ELSE /\ search_paused' = ~ search_paused
            /\ phase' = (IF search_paused THEN "Running" ELSE "Paused")
            /\ UNCHANGED search_running
    /\ writers' = [writers EXCEPT ![TaskSession].click = "none"]
    /\ UNCHANGED <<now, hmtime, disk, csv, holdings, call, committed>>
    /\ UNCHANGED <<search_queue, search_total, search_inputs,
                   search_results_accumulated, search_results_df, run>>

NextChunk ==
    \/ Tick
    \/ ChunkSearchClick
    \/ PopChunk
    \/ \E i \in 1..ChunkSize : EnterTask(TaskSession, i)
    \/ \E i \in 1..ChunkSize, ok \in BOOLEAN : LeaveTask(TaskSession, i, ok)
    \/ MergeChunk
    \/ \E button \in {"stop", "pause"} : PressButton(button)
    \/ HonourButton
    \/ ~ Busy /\ StopClick
    \/ ~ Busy /\ PauseClick
    \/ ~ Busy /\ Finish

SpecChunk == Init /\ [][NextChunk]_vars

(***************************************************************************)
(* A chunk whose call raises: process_single_fund raises while it extracts *)
(* the rows of a fund (lines 119-131; e.g. df['季度'].max() on a column    *)
(* that mixes labels and missing values), gather passes the exception on   *)
(* (line 158, no return_exceptions), and the except branch of the loop     *)
(* reports it (app.py:717-718).  The fetches of the tasks run in executor  *)
(* threads: those under way when the call raises may still write files.    *)
(***************************************************************************)
\* the files that the raising task i and the fetches S under way leave behind
FilesWritten(w, i, S) ==
    {TaskCodes(w)[j] : j \in {k \in S \cup {i} :
                                 /\ TaskCodes(w)[k] \notin csv
                                 /\ holdings[TaskCodes(w)[k]].rows # << >>}}

\* an except branch that puts the chunk back at the head of the queue
RaiseInChunkRequeue(i) ==
    /\ writers[TaskSession].pc = "tasks"
    /\ i \in InFlight(TaskSession)
    /\ holdings[TaskCodes(TaskSession)[i]].rows # << >>
    /\ \E S \in SUBSET (InFlight(TaskSession) \ {i}) :
          /\ csv' = csv \cup FilesWritten(TaskSession, i, S)
          /\ hmtime' = IF FilesWritten(TaskSession, i, S) # {} THEN now ELSE hmtime
    /\ call' = [NoCall EXCEPT !.fn = "search_funds_by_stocks_async",
                              !.stock_inputs = writers[TaskSession].stock_inputs,
                              !.filter_fund_codes = writers[TaskSession].filter_fund_codes,
                              !.raised = TRUE]
    /\ writers' = [writers EXCEPT ![TaskSession] =
                      [IdleWriter EXCEPT !.saves = writers[TaskSession].saves]]
    /\ search_queue' = writers[TaskSession].filter_fund_codes \o search_queue
    /\ run' = [run EXCEPT !.dropped = @ \cup Range(writers[TaskSession].filter_fund_codes)]
    /\ UNCHANGED <<now, disk, holdings, committed>>
    /\ UNCHANGED <<search_running, search_paused, search_total, search_inputs,
                   search_results_accumulated, search_results_df, phase>>

\* task i raises after its read or fetch gave rows; the call raises, line 715 is
\* skipped, st.error and st.rerun() follow
RaiseInChunk(i) ==
    /\ writers[TaskSession].pc = "tasks"
    /\ i \in InFlight(TaskSession)
    /\ holdings[TaskCodes(TaskSession)[i]].rows # << >>
    /\ \E S \in SUBSET (InFlight(TaskSession) \ {i}) :
          /\ csv' = csv \cup FilesWritten(TaskSession, i, S)
          /\ hmtime' = IF FilesWritten(TaskSession, i, S) # {} THEN now ELSE hmtime
    /\ call' = [NoCall EXCEPT !.fn = "search_funds_by_stocks_async",
                              !.stock_inputs = writers[TaskSession].stock_inputs,
                              !.filter_fund_codes = writers[TaskSession].filter_fund_codes,
                              !.raised = TRUE]
    /\ writers' = [writers EXCEPT ![TaskSession] =
                      [IdleWriter EXCEPT !.saves = writers[TaskSession].saves]]
    /\ run' = [run EXCEPT !.dropped = @ \cup Range(writers[TaskSession].filter_fund_codes)]
    /\ UNCHANGED <<now, disk, holdings, committed>>
    /\ UNCHANGED <<search_running, search_paused, search_queue, search_total, search_inputs,
                   search_results_accumulated, search_results_df, phase>>

NextRaise ==
    \/ Tick
    \/ ChunkSearchClick
    \/ PopChunk
    \/ \E i \in 1..ChunkSize : EnterTask(TaskSession, i)
    \/ \E i \in 1..ChunkSize, ok \in BOOLEAN : LeaveTask(TaskSession, i, ok)
    \/ \E i \in 1..ChunkSize : RaiseInChunk(i)
    \/ MergeChunk
    \/ ~ Busy /\ Finish

SpecRaise == Init /\ [][NextRaise]_vars

(***************************************************************************)
(* The loop left to run: searches are started while no loop is running and *)
(* nobody presses stop.  Every run of the script while search_running ends *)
(* in st.rerun() (app.py:695, 699, 720, 726), so the next run always comes:*)
(* a run that finds the queue empty finishes, a run that finds the loop    *)
(* not paused and no button pressed processes a chunk, and a paused loop   *)
(* is resumed at some time.  A chunk step is possible exactly when         *)
(* CanProcess holds (the batch can always run with no failed request and   *)
(* save at once), so strong fairness of ProcessChunk is stated with        *)
(* CanProcess as its enabling condition.                                   *)
(***************************************************************************)
\* a click on search while no loop is running
LiveClick ==
    /\ ~ search_running
    /\ \E inputs \in ClickInputs, pending_codes \in UNION {Perms(S) : S \in SUBSET Funds} :
          SearchClick(inputs, pending_codes)

\* the pause button pressed while paused
Resume == search_paused /\ PauseClick

NextLive ==
    \/ Tick
    \/ TouchHoldings
    \/ LiveClick
    \/ PauseClick
    \/ ProcessChunk
    \/ Finish

SpecLive ==
    /\ Init
    /\ [][NextLive]_vars
    /\ \/ <>[](~ CanProcess(search_running, search_paused, search_queue))
       \/ []<><<ProcessChunk>>_vars
    /\ WF_vars(Finish)
    /\ WF_vars(Resume)

(***************************************************************************)
(* A search box that holds only blanks and commas: stock_input is not the  *)
(* empty string, so the click handler runs (app.py:599), and split(',')    *)
(* gives terms that are blank.  The loop is left to run as in SpecLive.    *)
(***************************************************************************)
BlankInputs == {<<" ", " ">>, <<"c1">>}

BlankClick ==
    /\ ~ search_running
    /\ \E inputs \in BlankInputs, pending_codes \in UNION {Perms(S) : S \in SUBSET Funds} :
          SearchClick(inputs, pending_codes)

NextBlank ==
    \/ Tick
    \/ TouchHoldings
    \/ BlankClick
    \/ PauseClick
    \/ ProcessChunk
    \/ Finish

SpecBlank ==
    /\ Init
    /\ [][NextBlank]_vars
    /\ \/ <>[](~ CanProcess(search_running, search_paused, search_queue))
       \/ []<><<ProcessChunk>>_vars
    /\ WF_vars(Finish)
    /\ WF_vars(Resume)

(***************************************************************************)
(* Properties of the index and of single calls, checked under SpecApi.     *)
(***************************************************************************)
IsSearchCall == call.fn = "search_funds_by_stocks_async"
IsQueryCall == call.fn = "query_reverse_index_direct"

\* the file exists and the directory is newer than its timestamp plus the buffer
Stale == disk.state = "ok" /\ hmtime > disk.data.timestamp + GRACE

\* forward and reverse maps agree
CrossConsistent(cd) ==
    /\ \A f \in DOMAIN cd.fund_stocks : \A k \in Range(cd.fund_stocks[f]) :
           k \in DOMAIN cd.index /\ InList(cd.index[k], f)
    /\ \A k \in DOMAIN cd.index : \A f \in Range(cd.index[k]) :
           f \in DOMAIN cd.fund_stocks /\ k \in Range(cd.fund_stocks[f])

\* C1: after any sequence of scan batches from an empty index, every key of
\* fund_stocks[f] lists f in index, and every fund of index[k] lists k in its
\* fund_stocks, in the snapshot a batch leaves in memory and in the saved file.
C1_CrossConsistency ==
    /\ CrossConsistent(disk.data)
    /\ \A i \in 1..Len(call.trace) : CrossConsistent(call.trace[i])

\* a batch re-folded a fund that already had keys, with another result, and saved
C1_Witness ==
    /\ IsSearchCall
    /\ disk.state = "ok"
    /\ disk.data.index # EmptyMap
    /\ \E i \in 1..Len(call.results) :
          LET f == call.results[i].fund
          IN  /\ f \in DOMAIN call.trace[i].fund_stocks
              /\ call.trace[i].fund_stocks[f] # << >>
              /\ call.results[i].stocks = << >>
              /\ disk.data.index = call.trace[Len(call.trace)].index

\* C2: a call starts no process_single_fund for a fund that is in scanned_funds
\* of the index it loaded, whatever that fund's holdings were.
C2_ScannedOnce ==
    IsSearchCall =>
        \A f \in call.loaded.scanned_funds : ~ InList(call.submitted, f)

\* the scope held a scanned fund without holdings and an unscanned fund
C2_Witness ==
    /\ IsSearchCall
    /\ call.submitted # << >>
    /\ \E f \in Range(call.filter_fund_codes) :
          /\ f \in call.loaded.scanned_funds
          /\ call.loaded.fund_stocks[f] = << >>

\* C12: every fund with an entry in fund_stocks or fund_quarters is in scanned_funds,
\* in each snapshot a fold leaves in memory and in the saved file.
C12_ScannedCoversRecords ==
    \A cd \in {disk.data} \cup Range(call.trace) :
        /\ DOMAIN cd.fund_stocks \subseteq cd.scanned_funds
        /\ DOMAIN cd.fund_quarters \subseteq cd.scanned_funds

\* a batch folded several funds onto a saved, non-empty index
C12_Witness ==
    /\ IsSearchCall
    /\ Len(call.trace) > 2
    /\ call.loaded.scanned_funds # {}
    /\ disk.state = "ok"
    /\ DOMAIN disk.data.fund_stocks = Funds
    /\ DOMAIN disk.data.fund_quarters = Funds

\* the keys a result gives a fund: code and name of each stock, in order
KeysOf(stocks) ==
    [i \in 1..(2 * Len(stocks)) |->
        IF i % 2 = 1 THEN stocks[(i + 1) \div 2].code ELSE stocks[i \div 2].name]

\* the last task of the call for the fund of task i
LastTaskOf(i) ==
    CHOOSE j \in 1..Len(call.submitted) :
        /\ call.submitted[j] = call.submitted[i]
        /\ \A k \in (j+1)..Len(call.submitted) : call.submitted[k] # call.submitted[i]

\* C13: a failed provider request for one fund of a batch leaves the batch running:
\* the fund's result has no stocks and the fund is marked scanned, the other funds
\* get the result of their holdings, every fund of the batch is folded and saved,
\* and the call returns its rows.
C13_FailureContained ==
    (IsSearchCall /\ call.submitted # << >>) =>
        \A i \in 1..Len(call.submitted) :
            LET f == call.submitted[i]
            IN  /\ i \in call.failed => call.results[i].stocks = << >>
                /\ i \notin call.failed => call.results[i] = ExtractStocks(f, holdings[f])
                /\ f \in disk.data.scanned_funds
                /\ f \in DOMAIN disk.data.fund_stocks
                /\ disk.data.fund_stocks[f] = KeysOf(call.results[LastTaskOf(i)].stocks)
                /\ call.result =
                       QueryIndex(disk.data, NormalizeInputs(call.stock_inputs),
                                  call.stock_inputs, call.filter_fund_codes)

\* the first task of a batch of three failed, a later one gave stocks that were saved
C13_Witness ==
    /\ IsSearchCall
    /\ Len(call.submitted) = 3
    /\ call.failed = {1}
    /\ holdings[call.submitted[1]].rows # << >>
    /\ \E i \in 2..3 :
          /\ call.results[i].stocks # << >>
          /\ disk.data.fund_stocks[call.submitted[i]] # << >>
    /\ call.result # << >>

\* C3: when the holdings directory is newer than the file's timestamp plus 2
\* seconds, the next load returns the empty snapshot.
C3_Invalidation ==
    [][(Stale /\ call' # call /\ call'.fn # "none")
          => call'.loaded = EmptyIndexData]_vars

\* a load of a stale, non-empty file
C3_Witness ==
    /\ IsQueryCall
    /\ Stale
    /\ disk.data.scanned_funds # {}
    /\ disk.data.index # EmptyMap
    /\ call.loaded = EmptyIndexData

\* the stock codes and names of the rows of the latest reporting period of df
LatestPeriodKeys(df) ==
    LET latest == {i \in 1..Len(df.rows) :
                      "quarter" \in df.cols =>
                          \A j \in 1..Len(df.rows) :
                              LabelPos(df.rows[j].quarter) <= LabelPos(df.rows[i].quarter)}
    IN  {df.rows[i].code : i \in {j \in latest : "code" \in df.cols}}
        \cup {df.rows[i].name : i \in {j \in latest : "name" \in df.cols}}

\* the call searched the one term t in the one fund f
SingleSearch(t, f) ==
    /\ IsSearchCall
    /\ call.stock_inputs = <<t>>
    /\ call.filter_fund_codes = <<f>>

\* exactly one row, for f, with match_count 1 and match_degree 1.0
OneFullMatch(rows, f) ==
    /\ Len(rows) = 1
    /\ rows[1].fund_code = f
    /\ rows[1].match_count = 1
    /\ DegreeEq(rows[1].match_degree, <<1, 1>>)

\* the snapshot the call queried holds keys for f: its scan yielded holdings
ScanYieldedHoldings(f) ==
    /\ call.trace # << >>
    /\ f \in DOMAIN call.trace[Len(call.trace)].fund_stocks
    /\ call.trace[Len(call.trace)].fund_stocks[f] # << >>

\* C8 as stated: every stock code or name t of a row of the latest period of f,
\* searched as [t] in scope {f}, gives one row for f with match_count 1, degree 1.0.
C8_MatchCorrect_Original ==
    \A f \in Funds : \A t \in LatestPeriodKeys(holdings[f]) :
        SingleSearch(t, f) => OneFullMatch(call.result, f)

\* C8, amended: when the scan of f yielded holdings (they were not empty, unreadable,
\* lacking a required column or failed to be fetched) and t, a stock code or name of
\* a row of the latest period of f, is non-blank and has no leading or trailing
\* whitespace, searching [t] in scope {f} gives exactly one row, for f, with
\* match_count 1 and match_degree 1.0.
C8_MatchCorrect ==
    \A f \in Funds : \A t \in LatestPeriodKeys(holdings[f]) :
        (SingleSearch(t, f) /\ ScanYieldedHoldings(f) /\ Strip(t) = t /\ t # "")
            => OneFullMatch(call.result, f)

\* a search by stock name that scanned the fund in the same call
C8_Witness ==
    /\ SingleSearch("n2", "F2")
    /\ "n2" \in LatestPeriodKeys(holdings["F2"])
    /\ ScanYieldedHoldings("F2")
    /\ call.submitted = <<"F2">>
    /\ OneFullMatch(call.result, "F2")

\* C9: every returned row has 1 <= match_count <= number of normalized terms and
\* match_degree = match_count / number of normalized terms.
C9_DegreeBound ==
    LET n == Len(NormalizeInputs(call.stock_inputs))
    IN  \A i \in 1..Len(call.result) :
            LET r == call.result[i]
            IN  /\ 1 <= r.match_count
                /\ r.match_count <= n
                /\ DegreeEq(r.match_degree, <<r.match_count, n>>)
                /\ DegreeGt(r.match_degree, <<0, 1>>)
                /\ ~ DegreeGt(r.match_degree, <<1, 1>>)

\* a row of degree 1/2 for a query whose raw list held a blank term
C9_Witness ==
    /\ Len(call.stock_inputs) = 3
    /\ Len(NormalizeInputs(call.stock_inputs)) = 2
    /\ \E i \in 1..Len(call.result) : call.result[i].match_count = 1

\* C10: folding the same fund result a second time leaves index, fund_stocks and
\* fund_quarters as the first fold left them, and the fund at most once per key.
C10_IdempotentFold ==
    \A i \in 1..(Len(call.results) - 1) :
        call.results[i] = call.results[i+1] =>
            LET once == call.trace[i+1]
                twice == call.trace[i+2]
            IN  /\ twice.index = once.index
                /\ twice.fund_stocks = once.fund_stocks
                /\ twice.fund_quarters = once.fund_quarters
                /\ \A k \in DOMAIN twice.index :
                       Count(twice.index[k], call.results[i].fund) <= 1

\* the same non-empty result folded twice, into a key another fund also holds
C10_Witness ==
    \E i \in 1..(Len(call.results) - 1) :
        /\ call.results[i] = call.results[i+1]
        /\ call.results[i].stocks # << >>
        /\ \E k \in DOMAIN call.trace[i+2].index :
              /\ InList(call.trace[i+2].index[k], call.results[i].fund)
              /\ Len(call.trace[i+2].index[k]) >= 2

(***************************************************************************)
(* Properties of the search page, checked under Spec.                      *)
(***************************************************************************)
LoopEnded == phase \in {"Done", "Stopped"}

\* the loop reached Done having scanned every pending fund of the click
ScanCompleted ==
    /\ phase = "Done"
    /\ run.pending # << >>
    /\ [i \in 1..Len(run.log) |-> run.log[i].fund] = run.pending

\* the same scope scanned in one batch from the snapshot the click loaded, the
\* provider answering each fund as it did during the chunked scan
OneBatch == FoldResults(run.start, run.log)

\* equal snapshots, the fund lists of index taken as sets
SameSnapshot(a, b) ==
    /\ a.scanned_funds = b.scanned_funds
    /\ DOMAIN a.index = DOMAIN b.index
    /\ \A k \in DOMAIN a.index : Range(a.index[k]) = Range(b.index[k])
    /\ a.fund_stocks = b.fund_stocks
    /\ a.fund_quarters = b.fund_quarters

\* C4 as stated: a chunked scan ends with the index of the one-batch scan.
C4_ResumeEquivalence_Original ==
    ScanCompleted => SameSnapshot(disk.data, OneBatch)

\* C4, amended: a chunked scan during which nothing but the scan itself wrote the
\* holdings store ends with index, fund_stocks, fund_quarters and scanned_funds of
\* the one-batch scan of the same scope from the same starting snapshot.
C4_ResumeEquivalence ==
    (ScanCompleted /\ ~ run.touched) => SameSnapshot(disk.data, OneBatch)

\* a scan of two chunks, paused and resumed in between, onto a non-empty start
C4_Witness ==
    /\ ScanCompleted
    /\ ~ run.touched
    /\ run.resumed
    /\ Len(run.pending) > ChunkSize
    /\ disk.data.index # EmptyMap
    /\ disk.data.scanned_funds = Funds

\* C6: once the loop has ended and the script has run to its end, the rows shown hold
\* every fund matched by the immediate answer and by the completed chunks.
C6_ResultsComplete ==
    (LoopEnded /\ run.shown) => run.matched \subseteq FundsOfRows(search_results_df)

\* rows a sorted by match_count, then match_degree, both descending
IsRanked(rows) ==
    \A i, j \in 1..Len(rows) : i < j => ~ RowBefore(rows[j], rows[i])

\* C7: the final merged result is ordered by match_count, then match_degree, both
\* descending.
C7_MergedRanked ==
    (LoopEnded /\ run.shown) => IsRanked(search_results_df)

\* the click handler ran: a new search
NewSearch ==
    \E inputs \in ClickInputs, pending_codes \in UNION {Perms(S) : S \in SUBSET Funds} :
        SearchClick(inputs, pending_codes)

\* the transitions of the loop's state
LoopTransitions ==
    {<<"Idle", "Running">>, <<"Running", "Paused">>, <<"Running", "Done">>,
     <<"Running", "Stopped">>, <<"Paused", "Running">>, <<"Paused", "Stopped">>}

\* C14: apart from a new search, the loop only goes Idle to Running, Running to
\* Paused, Done or Stopped, Paused to Running or Stopped; a paused loop does not
\* become Done, and nothing but a new search leaves Stopped.
C14_LoopTransitions ==
    [][phase' = phase \/ <<phase, phase'>> \in LoopTransitions \/ NewSearch]_vars

\* C15: while the loop is paused and stays paused, no chunk is popped, no batch is
\* started and the queue and the accumulator stay as they are.
C15_PausedFrame ==
    [][(phase = "Paused" /\ phase' = "Paused")
          => /\ search_queue' = search_queue
             /\ search_results_accumulated' = search_results_accumulated
             /\ call' = call
             /\ disk' = disk
             /\ csv' = csv]_vars

\* the loop is paused after a chunk, with funds left in the queue
C15_Witness ==
    /\ phase = "Paused"
    /\ search_paused
    /\ search_queue # << >>
    /\ Len(search_queue) < search_total
    /\ search_results_accumulated # << >>

\* C16: a stop leaves the queue and the accumulator as they were, and while the
\* loop is Stopped no chunk is popped or scanned.
C16_StopFrame ==
    [][phase' = "Stopped"
          => /\ search_queue' = search_queue
             /\ search_results_accumulated' = search_results_accumulated
             /\ call' = call
             /\ disk' = disk
             /\ csv' = csv]_vars

\* the loop was stopped after a chunk, with funds left in the queue
C16_Witness ==
    /\ phase = "Stopped"
    /\ ~ search_running
    /\ search_queue # << >>
    /\ Len(search_queue) < search_total
    /\ search_results_accumulated # << >>

\* C17: after a stop, when nobody else wrote the holdings store during the search,
\* the saved index holds every fund of the chunks completed before the stop, in
\* scanned_funds and with the keys its scan gave.
C17_StopKeepsWork ==
    (phase = "Stopped" /\ ~ run.touched) =>
        \A i \in 1..Len(run.log) :
            LET f == run.log[i].fund
            IN  /\ disk.state = "ok"
                /\ f \in disk.data.scanned_funds
                /\ f \in DOMAIN disk.data.fund_stocks
                /\ disk.data.fund_stocks[f] = KeysOf(run.log[i].stocks)
                /\ \A k \in Range(disk.data.fund_stocks[f]) :
                      k \in DOMAIN disk.data.index /\ InList(disk.data.index[k], f)

\* a stop after the second chunk of a search
C17_Witness ==
    /\ phase = "Stopped"
    /\ ~ run.touched
    /\ Len(run.log) > ChunkSize
    /\ \E i \in 1..ChunkSize : run.log[i].stocks # << >>

\* C18: a running loop that is not stopped and not paused for ever reaches Done
\* with an empty queue, and each chunk step takes chunk_size funds (or what is
\* left) off the front of the queue, so n pending funds take ceil(n / chunk_size)
\* chunk steps.
C18_LoopTerminates ==
    /\ (phase = "Running") ~> (phase = "Done" /\ search_queue = << >>)
    /\ [][(phase = "Running" /\ search_queue' # search_queue)
            => /\ phase' = "Running"
               /\ Len(search_queue) > ChunkSize
                     => search_queue' = SubSeq(search_queue, ChunkSize + 1, Len(search_queue))
               /\ Len(search_queue) <= ChunkSize => search_queue' = << >>]_vars

\* a loop of more than one chunk, paused and resumed on the way, is Done
C18_Witness ==
    /\ phase = "Done"
    /\ search_queue = << >>
    /\ Len(run.pending) > ChunkSize
    /\ Len(run.log) = Len(run.pending)
    /\ run.resumed

\* no two rows of the same fund
FundOnce(rows) ==
    \A i, j \in 1..Len(rows) : rows[i].fund_code = rows[j].fund_code => i = j

FailedFunds == {call.submitted[i] : i \in call.failed}

\* the snapshot a call queried
QueriedSnapshot == IF IsSearchCall THEN call.trace[Len(call.trace)] ELSE call.loaded

\* C11: a fund whose scan yields no holdings (empty frame, missing column, failed
\* request) is in scanned_funds after the batch, in memory and in the file, and is
\* in no result; and in the example, searched from an empty index with no failed
\* request for F1 and F2, the result is exactly F1 and F2, each with match_count 1
\* and match_degree 0.5, and F3 is in scanned_funds.
C11_NoHoldingsFunds ==
    /\ IsSearchCall =>
          \A i \in 1..Len(call.results) :
              call.results[i].stocks = << >> =>
                  /\ call.results[i].fund \in QueriedSnapshot.scanned_funds
                  /\ call.results[i].fund \in disk.data.scanned_funds
    /\ call.fn # "none" =>
          \A f \in DOMAIN QueriedSnapshot.fund_stocks :
              QueriedSnapshot.fund_stocks[f] = << >> =>
                  f \notin FundsOfRows(call.result)
    /\ (/\ IsSearchCall
        /\ holdings = HoldingsC
        /\ Range(call.filter_fund_codes) = Funds
        /\ call.loaded = EmptyIndexData
        /\ FailedFunds \subseteq {"F3"})
          => /\ Len(call.result) = 2
             /\ FundsOfRows(call.result) = {"F1", "F2"}
             /\ \A i \in 1..2 :
                   /\ call.result[i].match_count = 1
                   /\ DegreeEq(call.result[i].match_degree, <<1, 2>>)
             /\ "F3" \in disk.data.scanned_funds

\* the example ran on an empty index and answered F1 and F2
C11_Witness ==
    /\ IsSearchCall
    /\ holdings = HoldingsC
    /\ Range(call.filter_fund_codes) = Funds
    /\ call.loaded = EmptyIndexData
    /\ call.failed = {}
    /\ FundsOfRows(call.result) = {"F1", "F2"}
    /\ "F3" \in disk.data.scanned_funds
    /\ "F3" \notin FundsOfRows(call.result)

(***************************************************************************)
(* Properties of concurrent batches, checked under SpecTwo.                *)
(***************************************************************************)
\* C5: the file has one writer at a time, so every save writes a snapshot that holds
\* the funds of every batch that saved before it (no lost update).
C5_NoLostUpdate ==
    disk.state = "ok" => committed \subseteq disk.data.scanned_funds

(***************************************************************************)
(* Properties of the save, checked under SpecSave.                         *)
(***************************************************************************)
\* C20: a save replaces the file as a whole: at no time, also when the write fails
\* or is interrupted, does the file hold part of a snapshot.
C20_AtomicReplace == disk.state # "partial"

(***************************************************************************)
(* Properties of the timestamp, checked under SpecStamp.                   *)
(***************************************************************************)
\* C21: a saved snapshot carries the time of its save (a time not after the moment
\* the file is written), and over any sequence of saves the timestamp in the file
\* never decreases.
C21_TimestampMonotone ==
    [][disk' # disk =>
          /\ disk'.data.timestamp <= now'
          /\ disk'.data.timestamp >= disk.data.timestamp]_vars

(***************************************************************************)
(* Properties of a malformed file, checked under SpecCorrupt.              *)
(***************************************************************************)
\* C22: when the file holds no JSON, or JSON without expected keys such as
\* scanned_funds, load_reverse_index yields the empty snapshot and a search call
\* made then completes without raising.
C22_CorruptIndexRecovered ==
    /\ disk.state \in {"invalid", "nokey"} =>
          /\ ~ LacksScannedFunds(disk, hmtime)
          /\ load_reverse_index(disk, hmtime) = EmptyIndexData
    /\ ~ call.raised

(***************************************************************************)
(* Properties of a failed save, checked under SpecSaveFail.                *)
(***************************************************************************)
\* the funds of the last call's batch that hold one of the searched terms
BatchMatches ==
    {call.results[i].fund : i \in
        {j \in 1..Len(call.results) :
            \E k \in 1..Len(KeysOf(call.results[j].stocks)) :
                InList(NormalizeInputs(call.stock_inputs), KeysOf(call.results[j].stocks)[k])}}

\* C23: when the save after a batch fails, the call raises nothing and returns the
\* matches of the batch, and the snapshot written by the next batch whose save
\* succeeds holds the funds that the failed batch folded.
C23_SaveFailureRetried ==
    /\ []((IsSearchCall /\ call.saved = "failed") =>
              /\ ~ call.raised
              /\ BatchMatches \subseteq FundsOfRows(call.result))
    /\ [][(call.saved = "failed" /\ call'.saved = "ok") =>
              Range(call.submitted) \subseteq disk'.data.scanned_funds]_vars

\* every term of the last call is empty once stripped
OnlyBlankTerms == \A i \in 1..Len(call.stock_inputs) : Strip(call.stock_inputs[i]) = ""

\* C24: a call of search_funds_by_stocks_async or query_reverse_index_direct whose
\* terms are all empty after stripping returns the empty result and raises nothing.
C24_BlankTermsEmpty ==
    (call.fn # "none" /\ OnlyBlankTerms) => (call.result = << >> /\ ~ call.raised)

\* a search with blank terms only, on a file that makes a search with a term raise
C24_Witness ==
    /\ IsSearchCall
    /\ OnlyBlankTerms
    /\ call.filter_fund_codes # << >>
    /\ LacksScannedFunds(disk, hmtime)
    /\ call.result = << >>
    /\ ~ call.raised

\* the step is a search (async or through the sync wrapper) with an empty scope
EmptyScopeSearch ==
    /\ call' # call
    /\ call'.fn \in {"search_funds_by_stocks_async", "search_funds_by_stocks"}
    /\ call'.filter_fund_codes = << >>

\* C25: a search with an empty fund scope returns the empty result and raises
\* nothing, submits no fund for scanning, makes no provider request (no holdings
\* file appears, the directory is not touched) and leaves the index file as it is.
C25_EmptyScope ==
    [][EmptyScopeSearch =>
          /\ call'.result = << >>
          /\ ~ call'.raised
          /\ call'.submitted = << >>
          /\ csv' = csv /\ hmtime' = hmtime
          /\ disk' = disk]_vars

\* a search with a term and an empty scope ran while funds were still unscanned and
\* the file was one on which a search with a scope raises
C25_Witness ==
    /\ IsSearchCall
    /\ call.filter_fund_codes = << >>
    /\ NormalizeInputs(call.stock_inputs) # << >>
    /\ LacksScannedFunds(disk, hmtime)
    /\ call.result = << >>
    /\ ~ call.raised

(***************************************************************************)
(* Properties of a batch seen task by task, checked under SpecTasks.       *)
(***************************************************************************)
\* C26: a batch writes the index file exactly once, after the results of all its
\* funds are collected and folded: no write while a task is waiting or in flight,
\* none per fund, and at the return one write that holds every fund of the batch.
C26_PersistOnce ==
    /\ writers[TaskSession].pc = "tasks" => writers[TaskSession].saves = 0
    /\ (writers[TaskSession].pc = "idle" /\ IsSearchCall /\ call.submitted # << >>) =>
          /\ writers[TaskSession].saves = 1
          /\ disk.state = "ok"
          /\ Range(call.submitted) \subseteq disk.data.scanned_funds
          /\ \A i \in 1..Len(call.results) : call.results[i] # NoResult

\* a batch of three funds returned, one of its requests having failed
C26_Witness ==
    /\ writers[TaskSession].pc = "idle"
    /\ IsSearchCall
    /\ Len(call.submitted) = 3
    /\ call.failed # {}
    /\ writers[TaskSession].saves = 1

\* C28: at every moment of a batch at most SemLimit (20 in the code) of its funds
\* are inside process_single_fund's "async with sem" (file read, provider request,
\* extraction).
C28_BoundedInFlight ==
    Cardinality(InFlight(TaskSession)) <= SemLimit

\* the limit is reached while a further task of the batch waits for the semaphore
C28_Witness ==
    /\ writers[TaskSession].pc = "tasks"
    /\ Cardinality(InFlight(TaskSession)) = SemLimit
    /\ \E i \in 1..Len(writers[TaskSession].tasks) : writers[TaskSession].tasks[i] = "waiting"

(***************************************************************************)
(* Properties of a chunk step seen from inside, checked under SpecChunk.   *)
(***************************************************************************)
\* the funds of the search that have left the queue
PoppedFunds == Range(run.pending) \ Range(search_queue)

\* C27: a stop or pause takes effect only between chunks: whenever the loop is
\* Stopped or Paused no chunk is partly processed, every fund that left the queue
\* has been scanned and folded, and the file holds it.
C27_ChunkRunsToCompletion ==
    phase \in {"Stopped", "Paused"} =>
        /\ writers[TaskSession].pc = "idle"
        /\ PoppedFunds = {run.log[i].fund : i \in 1..Len(run.log)}
        /\ disk.state = "ok" => PoppedFunds \subseteq disk.data.scanned_funds
        /\ PoppedFunds # {} => disk.state = "ok"

\* stop was pressed while the chunk was being scanned; the chunk has been scanned and
\* saved since, funds are left in the queue, and the loop is still Running: the
\* stop is what the next run of the script does
C27_Witness ==
    /\ phase = "Running"
    /\ writers[TaskSession].pc = "idle"
    /\ writers[TaskSession].click = "stop"
    /\ writers[TaskSession].saves = 1
    /\ Len(run.log) = ChunkSize
    /\ search_queue # << >>
    /\ PoppedFunds \subseteq disk.data.scanned_funds

\* the funds handed to search_funds_by_stocks_async so far in this search, in
\* order: the chunks that are done and the chunk being scanned
SubmittedFunds ==
    [i \in 1..Len(run.log) |-> run.log[i].fund] \o writers[TaskSession].filter_fund_codes

\* C29: a chunk step takes the first min(chunk_size, length) funds off the queue
\* and hands them to the builder as one chunk; the chunks of a search are disjoint,
\* each pending fund is in at most one of them, and in exactly one when the loop
\* is Done.
C29_ChunksPartition ==
    /\ [](/\ SubmittedFunds \o search_queue = run.pending
          /\ \A i, j \in 1..Len(run.pending) : run.pending[i] = run.pending[j] => i = j
          /\ phase = "Done" =>
                \A f \in Range(run.pending) : Count(SubmittedFunds, f) = 1)
    /\ [][(search_running /\ search_queue' # search_queue) =>
             LET n == IF Len(search_queue) < ChunkSize THEN Len(search_queue) ELSE ChunkSize
             IN  /\ search_queue # << >>
                 /\ writers'[TaskSession].filter_fund_codes = SubSeq(search_queue, 1, n)
                 /\ search_queue' = SubSeq(search_queue, n + 1, Len(search_queue))]_vars

\* three pending funds went through a full chunk and a short one, and the loop is Done
C29_Witness ==
    /\ phase = "Done"
    /\ Len(run.pending) = ChunkSize + 1
    /\ Len(SubmittedFunds) = ChunkSize + 1
    /\ search_queue = << >>

(***************************************************************************)
(* Further properties of the entry points, checked under SpecApi.          *)
(***************************************************************************)
\* the content of a snapshot: everything but its timestamp
Content(cd) == [cd EXCEPT !.timestamp = 0]

\* C31: a save followed by a load is the identity on the content: the file holds
\* scanned_funds, index, fund_quarters and fund_stocks of the snapshot the batch
\* folded, and a load made while the holdings directory's mtime is at most the
\* file's timestamp plus 2 seconds (boundary included) returns them unchanged.
C31_SaveLoadIdentity ==
    /\ []((IsSearchCall /\ call.saved = "ok") =>
              /\ disk.state = "ok"
              /\ Content(disk.data) = Content(call.trace[Len(call.trace)]))
    /\ [][(/\ disk.state = "ok"
           /\ hmtime <= disk.data.timestamp + GRACE
           /\ call' # call
           /\ call'.fn # "none"
           /\ NormalizeInputs(call'.stock_inputs) # << >>
           /\ call'.fn = "search_funds_by_stocks_async" => call'.filter_fund_codes # << >>)
             => Content(call'.loaded) = Content(disk.data)]_vars

\* a load at the boundary, mtime = timestamp + 2, returned the saved funds
C31_Witness ==
    /\ IsQueryCall
    /\ disk.state = "ok"
    /\ hmtime = disk.data.timestamp + GRACE
    /\ disk.data.scanned_funds # {}
    /\ disk.data.index # EmptyMap
    /\ Content(call.loaded) = Content(disk.data)

\* the rows of df carry a stock code, a stock name and a reporting-period label
CarriesLabels(df) == df.rows # << >> /\ AllCols \subseteq df.cols

\* the greatest labels among the rows of df in string order (there is exactly one)
TopLabels(df) ==
    LET labels == {df.rows[j].quarter : j \in 1..Len(df.rows)}
    IN  {l \in labels : \A m \in labels : LabelPos(m) <= LabelPos(l)}

\* the stock codes and stock names of the rows of df labelled l
KeysLabelled(df, l) ==
    {df.rows[j].code : j \in {k \in 1..Len(df.rows) : df.rows[k].quarter = l}}
        \cup {df.rows[j].name : j \in {k \in 1..Len(df.rows) : df.rows[k].quarter = l}}

\* C32: when the rows a task got for a fund carry a reporting-period label (next to
\* their stock code and stock name), the keys folded for the fund are exactly the
\* stock codes and stock names of the rows with the greatest label in string order,
\* and the quarter recorded for the fund is that label: right after the fold of the
\* task, fund_stocks[f] holds those keys, index lists f under those keys and under
\* no other key, and fund_quarters[f] is the label.
C32_LatestPeriodFolded ==
    IsSearchCall =>
        \A i \in 1..Len(call.submitted) :
            LET f == call.submitted[i]
                after == call.trace[i + 1]
            IN  (i \notin call.failed /\ CarriesLabels(holdings[f])) =>
                    /\ Cardinality(TopLabels(holdings[f])) = 1
                    /\ \A l \in TopLabels(holdings[f]) :
                           /\ call.results[i].quarter = l
                           /\ Range(KeysOf(call.results[i].stocks)) = KeysLabelled(holdings[f], l)
                           /\ f \in after.scanned_funds
                           /\ after.fund_quarters[f] = l
                           /\ Range(after.fund_stocks[f]) = KeysLabelled(holdings[f], l)
                           /\ \A k \in DOMAIN after.index :
                                  InList(after.index[k], f) <=> k \in KeysLabelled(holdings[f], l)

\* a fund with rows of two periods was scanned: the keys of the earlier period
\* (c2, n2) are not folded for it, the quarter recorded is the later label
C32_Witness ==
    /\ IsSearchCall
    /\ call.submitted # << >>
    /\ call.submitted[1] = "F1"
    /\ 1 \notin call.failed
    /\ \E j, k \in 1..Len(holdings["F1"].rows) :
           /\ "quarter" \in holdings["F1"].cols
           /\ holdings["F1"].rows[j].quarter = "2024Q2"
           /\ holdings["F1"].rows[k].quarter = "2024Q1"
           /\ holdings["F1"].rows[k].code = "c2"
    /\ call.trace[2].fund_quarters["F1"] = "2024Q2"
    /\ Range(call.trace[2].fund_stocks["F1"]) = {"c1", "n1"}
    /\ "c2" \notin DOMAIN call.trace[2].index

IsCoverageCall == call.fn = "check_cache_coverage"

\* C33: check_cache_coverage(fund_codes) returns True whenever every given fund code
\* is in scanned_funds of the index it loaded, and False whenever some given code
\* is not.
C33_CoverageAnswer ==
    (IsCoverageCall /\ ~ call.raised) =>
        (call.covered <=> Range(call.filter_fund_codes) \subseteq call.loaded.scanned_funds)

(***************************************************************************)
(* Properties of the tasks of one call, checked under SpecTasks, where the *)
(* fetches of the tasks are the only writes to the holdings directory.     *)
(***************************************************************************)
\* the session is between two calls
BetweenCalls == writers[TaskSession].pc = "idle"

\* a step that starts the next call: lines 142-156, with the load of line 147
NextCallLoads == BetweenCalls /\ writers'[TaskSession].pc = "tasks"

\* C34: a batch does not invalidate its own result.  When the provider fetches of
\* the batch wrote holdings files (raising the mtime of the directory) and the batch
\* saved, and nothing else has written the directory since, load_reverse_index
\* returns the saved snapshot, with the funds of the batch scanned, and not the
\* empty one: after the call returns, and at the load of the next call.
C34_OwnFetchesKeepIndex ==
    /\ []((IsSearchCall /\ call.saved = "ok" /\ BetweenCalls) =>
              /\ disk.state = "ok"
              /\ load_reverse_index(disk, hmtime) = disk.data
              /\ Range(call.submitted) \subseteq load_reverse_index(disk, hmtime).scanned_funds)
    /\ [][(IsSearchCall /\ call.saved = "ok" /\ NextCallLoads) =>
              /\ writers'[TaskSession].cache_data = disk.data
              /\ Range(call.submitted) \subseteq
                     writers'[TaskSession].cache_data.scanned_funds]_vars

\* the next call has loaded the snapshot that the previous call saved, although the
\* fetches of that call made the directory newer than the snapshot it had loaded
C34_Witness ==
    /\ IsSearchCall
    /\ call.saved = "ok"
    /\ writers[TaskSession].pc = "tasks"
    /\ csv # {}
    /\ hmtime > call.loaded.timestamp + GRACE
    /\ hmtime = disk.data.timestamp
    /\ writers[TaskSession].cache_data = disk.data
    /\ Range(call.submitted) \subseteq writers[TaskSession].cache_data.scanned_funds

(***************************************************************************)
(* Properties of a chunk whose call raises, checked under SpecRaise.       *)
(***************************************************************************)
\* the step in which the call of the chunk raises
ChunkRaises == writers[TaskSession].pc = "tasks" /\ call'.raised /\ call' # call

\* the funds of the chunk that the session is scanning
FundsInChunk ==
    IF writers[TaskSession].pc = "tasks" THEN Range(writers[TaskSession].filter_fund_codes)
    ELSE {}

\* C35: when the call of a chunk raises, none of the funds of the chunk is folded or
\* persisted (the index file and the accumulated rows stay as they were) and the
\* loop state is untouched, so the loop goes on with the next chunk; the chunk had
\* left the queue before the call, so for the rest of the search its funds are not
\* in the queue, not in a later chunk and not in scanned_funds of the loaded index.
C35_RaisedChunkDropped ==
    /\ [][ChunkRaises =>
              /\ disk' = disk
              /\ search_results_accumulated' = search_results_accumulated
              /\ search_queue' = search_queue
              /\ search_running' = search_running
              /\ search_paused' = search_paused
              /\ Range(writers[TaskSession].filter_fund_codes) \cap Range(search_queue') = {}
              /\ Range(writers[TaskSession].filter_fund_codes)
                     \cap load_reverse_index(disk', hmtime').scanned_funds = {}]_vars
    /\ [](search_running =>
              /\ run.dropped \cap Range(search_queue) = {}
              /\ run.dropped \cap FundsInChunk = {}
              /\ run.dropped \cap load_reverse_index(disk, hmtime).scanned_funds = {})

\* the call of the first chunk raised after one of its tasks was done; the next
\* chunk was scanned and saved, and the loop came to its end without the two funds
C35_Witness ==
    /\ phase = "Done"
    /\ Cardinality(run.dropped) = ChunkSize
    /\ IsSearchCall /\ call.saved = "ok"
    /\ Range(call.submitted) # {}
    /\ Range(call.submitted) \cap run.dropped = {}
    /\ disk.state = "ok"
    /\ disk.data.scanned_funds = Range(call.submitted)
    /\ run.dropped \cap csv # {}

(***************************************************************************)
(* Scope of the answers, checked under SpecApi.                            *)
(***************************************************************************)
\* the funds that the snapshot cd lists under a term of the call but that are not in
\* the scope of the call
ListedOutsideScope(cd) ==
    {f \in Funds : /\ f \notin Range(call.filter_fund_codes)
                   /\ \E t \in Range(NormalizeInputs(call.stock_inputs)) :
                          t \in DOMAIN cd.index /\ InList(cd.index[t], f)}

\* C36: every fund in the rows that search_funds_by_stocks_async or
\* query_reverse_index_direct returns is a member of the scope passed to the call,
\* also when the index lists funds outside the scope under a matched key.
C36_AnswerWithinScope ==
    (IsSearchCall \/ IsQueryCall) =>
        \A i \in 1..Len(call.result) :
            InList(call.filter_fund_codes, call.result[i].fund_code)

\* a search answered with a fund of its scope from a snapshot that lists, under the
\* same term, a fund outside the scope
C36_Witness ==
    /\ IsSearchCall
    /\ call.result # << >>
    /\ call.trace # << >>
    /\ ListedOutsideScope(call.trace[Len(call.trace)]) # {}
    /\ \E i \in 1..Len(call.result) : \E f \in ListedOutsideScope(call.trace[Len(call.trace)]) :
           call.result[i].matched_stocks
               \cap {t \in DOMAIN call.trace[Len(call.trace)].index :
                        InList(call.trace[Len(call.trace)].index[t], f)} # {}

(***************************************************************************)
(* Properties of the read paths, checked under SpecRead.                   *)
(***************************************************************************)
\* a step that is a call of load_reverse_index, check_cache_coverage or
\* query_reverse_index_direct, or a search whose whole scope the loaded index has
\* scanned
ReadCall ==
    /\ call' # call
    /\ \/ call'.fn \in {"load_reverse_index", "check_cache_coverage",
                        "query_reverse_index_direct"}
       \/ /\ call'.fn = "search_funds_by_stocks_async"
          /\ Range(call'.filter_fund_codes)
                 \subseteq load_reverse_index(disk, hmtime).scanned_funds

\* C37: the read paths never write the persisted index: load_reverse_index (also
\* when it judges the file stale or corrupt), check_cache_coverage,
\* query_reverse_index_direct and a search whose whole scope is already scanned leave
\* the content and the timestamp of the file as they were.
C37_ReadsDoNotWrite ==
    [][ReadCall => disk' = disk]_vars

\* load_reverse_index has judged a file with scanned funds stale and returned the
\* empty snapshot; the file still holds the funds and its timestamp
C37_Witness ==
    /\ call.fn = "load_reverse_index"
    /\ Stale
    /\ call.loaded = EmptyIndexData
    /\ disk.data.scanned_funds # {}
    /\ disk.data.timestamp > 0

(***************************************************************************)
(* The contributions to the accumulator, checked under SpecRaise, where a  *)
(* search can start with some funds of the scope indexed and others (those *)
(* of a chunk whose call raised) still pending.                            *)
(***************************************************************************)
\* cached_codes of the click: the funds of the scope that the loaded index had scanned
CachedPartition == Range(FilterCodes) \cap run.start.scanned_funds

\* the funds of the chunks popped so far in this search
PoppedSoFar == Range(run.pending) \ Range(search_queue)

\* C38: within one search the already-indexed partition and the chunks popped from
\* the queue are pairwise disjoint sets of funds: a popped chunk shares no fund with
\* the partition or with an earlier chunk, every accumulated row is for a fund of the
\* partition or of a popped chunk, and no two accumulated rows are for the same
\* fund_code.
C38_ContributionsDisjoint ==
    /\ [](/\ CachedPartition \cap Range(run.pending) = {}
          /\ FundsOfRows(search_results_accumulated) \subseteq CachedPartition \cup PoppedSoFar
          /\ \A i, j \in 1..Len(search_results_accumulated) :
                 search_results_accumulated[i].fund_code
                     = search_results_accumulated[j].fund_code => i = j)
    /\ [][(search_running /\ search_queue' # search_queue) =>
              /\ Range(writers'[TaskSession].filter_fund_codes) # {}
              /\ Range(writers'[TaskSession].filter_fund_codes)
                     \cap (CachedPartition \cup PoppedSoFar) = {}
              /\ Range(writers'[TaskSession].filter_fund_codes)
                     \cap Range(search_queue') = {}]_vars

\* a search that began with an immediate answer for an indexed fund and then scanned
\* a chunk: the accumulator holds a row from each, for different funds
C38_Witness ==
    /\ phase = "Done"
    /\ CachedPartition # {}
    /\ PoppedSoFar # {}
    /\ FundsOfRows(search_results_accumulated) \cap CachedPartition # {}
    /\ FundsOfRows(search_results_accumulated) \cap PoppedSoFar # {}

(***************************************************************************)
(* A search for blank terms, checked under SpecBlank.                      *)
(***************************************************************************)
\* the terms of the search are all blanks or empty, and there is at least one
BlankSearch ==
    /\ search_inputs # << >>
    /\ \A i \in 1..Len(search_inputs) : search_inputs[i] \in {" ", ""}

\* C39: a search started with a non-empty input whose terms are all blank, over a
\* scope with unscanned funds, enters Running with the unscanned funds queued; while
\* it runs no fund is scanned, no provider request is made or fails, no holdings
\* file is written, and the persisted index (scanned_funds included) and the
\* accumulated rows stay as they were; and the loop drains the whole queue and
\* reaches Done.
C39_BlankSearchDrains ==
    /\ []((BlankSearch /\ run.pending # << >>) =>
              /\ phase \in {"Running", "Paused", "Done"}
              /\ search_running <=> phase # "Done"
              /\ search_total = Len(run.pending)
              /\ run.log = << >>)
    /\ [][(BlankSearch /\ search_running) =>
              /\ disk' = disk
              /\ csv' = csv
              /\ run'.log = << >>
              /\ search_results_accumulated' = search_results_accumulated
              /\ call' # call =>
                    /\ call'.submitted = << >>
                    /\ call'.failed = {}
                    /\ call'.saved = "no"
                    /\ call'.result = << >>]_vars
    /\ (BlankSearch /\ search_running) ~>
           (BlankSearch /\ phase = "Done" /\ search_queue = << >> /\ run.log = << >>)

\* a search for blanks over three unscanned funds (the file holds funds but is stale)
\* has drained its queue and is Done; the file still holds what it held
C39_Witness ==
    /\ BlankSearch
    /\ phase = "Done"
    /\ Len(run.pending) = Cardinality(Funds)
    /\ search_queue = << >>
    /\ run.log = << >>
    /\ IsSearchCall /\ call.stock_inputs = search_inputs /\ call.submitted = << >>
    /\ Stale
    /\ disk.data.scanned_funds # {}

====
